---- MODULE Spec2Model ----
(***************************************************************************)
(* KazTron configuration subsystem: the file-backed KaztronConfig          *)
(* (kaztron/config/config.py) and the Field / ConfigModel / ConfigList /   *)
(* ConfigDict / ConfigRoot object model (kaztron/config/object.py,         *)
(* kaztron/config/fields/fields.py).                                       *)
(***************************************************************************)
EXTENDS Integers, Sequences, FiniteSets, TLC

VARIABLES
    opened,      \* a KaztronConfig object exists (its constructor returned)
    read_only,   \* KaztronConfig._read_only
    is_dirty,    \* KaztronConfig.is_dirty
    data,        \* KaztronConfig._data : sections -> keys -> values
    defaults,    \* KaztronConfig._defaults
    file,        \* the file behind the file strategy
    clast,       \* outcome of the latest KaztronConfig call
    nodes,       \* heap of config nodes (ConfigRoot/ConfigModel/ConfigList/ConfigDict)
    raws,        \* heap of raw (primitive) dicts and lists
    nonStrict,   \* ConfigModelField objects whose strict_keys was set to False
    fieldAttrs,  \* per Field object that reads one: its testattr attribute
    hist,        \* per node and slot: what the reads and writes so far returned/replaced
    calls,       \* number of node calls made so far
    last,        \* outcome of the latest node call
    client       \* the KazClient that the DiscordModelFields look models up with

cvars == <<opened, read_only, is_dirty, data, defaults, file, clast>>
tvars == <<nodes, raws, nonStrict, fieldAttrs, hist, calls, last, client>>
vars == <<opened, read_only, is_dirty, data, defaults, file, clast,
          nodes, raws, nonStrict, fieldAttrs, hist, calls, last, client>>

\* The client attribute of a DiscordModelField: None (inj = FALSE) until
\* _update_runtime_attributes injects a KazClient (client.py 312), of which
\* convert sees is_ready(), whether guild is not None (client.py 173-181)
\* and the models it can look up.
NoClient == [inj |-> FALSE, ready |-> FALSE, guild |-> FALSE, has |-> {}]

(***************************************************************************)
(* Bounds                                                                  *)
(***************************************************************************)
MaxCVal == 1      \* values stored through KaztronConfig.set are 1..MaxCVal

(***************************************************************************)
(* KaztronConfig                                                           *)
(***************************************************************************)
Sections == {"core", "_s"}
CKeys == {"k", "_k"}
Slots == Sections \X CKeys
CVals == 1..MaxCVal

\* a section/key tree; kv = 0 stands for "key not in the section"
EmptyData == [secs |-> {}, kv |-> [sl \in Slots |-> 0]]

StartsWithUnderscore(name) == name \in {"_s", "_k"}

\* the trees a file can hold when the program starts
FileContents ==
    { [secs |-> {"core"}, kv |-> [sl \in Slots |-> IF sl = <<"core", "k">> THEN 1 ELSE 0]],
      [secs |-> {"core"}, kv |-> [sl \in Slots |-> 0]],
      [secs |-> {"core"}, kv |-> [sl \in Slots |-> IF sl = <<"core", "_k">> THEN 1 ELSE 0]],
      [secs |-> {"core", "_s"}, kv |-> [sl \in Slots |-> IF sl = <<"core", "k">> THEN 1 ELSE 0]],
      EmptyData }

\* read(): the name check on the loaded tree (config.py 131-136)
HasInvalidName(d) ==
    \/ \E s \in d.secs : StartsWithUnderscore(s)
    \/ \E sl \in Slots : d.kv[sl] # 0 /\ StartsWithUnderscore(sl[2])

\* the part of the KaztronConfig object and of the file that calls change
CfgState == [is_dirty |-> is_dirty, data |-> data, defaults |-> defaults, file |-> file]

\* JsonFileStrategy.write: atomic replace, or OSError with the file untouched
StrategyWrite(f, d, wfail) ==
    IF wfail THEN f ELSE [exists |-> TRUE, content |-> d]

\* KaztronConfig.write with the dirty check dropped
WriteAlways(c, ro, wfail) ==
    IF ro THEN [c |-> c, out |-> "ReadOnlyError", writes |-> 0]
    ELSE IF wfail THEN [c |-> c, out |-> "OSError", writes |-> 1]
    ELSE [c |-> [c EXCEPT !.file = StrategyWrite(c.file, c.data, FALSE),
                          !.is_dirty = FALSE],
          out |-> "ok", writes |-> 1]

\* KaztronConfig.write that writes a read-only file
WriteIgnoresReadOnly(c, ro, wfail) ==
    IF ~c.is_dirty THEN [c |-> c, out |-> "ok", writes |-> 0]
    ELSE IF wfail THEN [c |-> c, out |-> "OSError", writes |-> 1]
    ELSE [c |-> [c EXCEPT !.file = StrategyWrite(c.file, c.data, FALSE),
                          !.is_dirty = FALSE],
          out |-> "ok", writes |-> 1]

\* KaztronConfig.write that clears the flag although the file write raised
WriteClearsOnFailure(c, ro, wfail) ==
    IF ro THEN [c |-> c, out |-> "ReadOnlyError", writes |-> 0]
    ELSE IF ~c.is_dirty THEN [c |-> c, out |-> "ok", writes |-> 0]
    ELSE IF wfail THEN [c |-> [c EXCEPT !.is_dirty = FALSE], out |-> "OSError", writes |-> 1]
    ELSE [c |-> [c EXCEPT !.file = StrategyWrite(c.file, c.data, FALSE),
                          !.is_dirty = FALSE],
          out |-> "ok", writes |-> 1]

\* KaztronConfig.write (config.py 138-151)
CfgWrite(c, ro, wfail) ==
    IF ro THEN [c |-> c, out |-> "ReadOnlyError", writes |-> 0]
    ELSE IF ~c.is_dirty THEN [c |-> c, out |-> "ok", writes |-> 0]
    ELSE IF wfail THEN [c |-> c, out |-> "OSError", writes |-> 1]
    ELSE [c |-> [c EXCEPT !.file = StrategyWrite(c.file, c.data, FALSE),
                          !.is_dirty = FALSE],
          out |-> "ok", writes |-> 1]

\* KaztronConfig.read that creates a missing file without forcing the write
ReadLeavesClean(c, ro, rerr, wfail) ==
    LET c0 == [c EXCEPT !.data = EmptyData] IN
    IF ~c.file.exists THEN
        IF ~ro THEN LET w == CfgWrite(c0, ro, wfail)
                    IN  [c |-> w.c, out |-> w.out, writes |-> w.writes]
        ELSE [c |-> c0, out |-> "OSError", writes |-> 0]
    ELSE IF rerr THEN
        [c |-> c0, out |-> "OSError", writes |-> 0]
    ELSE LET c1 == [c0 EXCEPT !.data = c.file.content, !.is_dirty = FALSE]
         IN  [c |-> c1,
              out |-> IF HasInvalidName(c1.data) THEN "ConfigNameError" ELSE "ok",
              writes |-> 0]

\* KaztronConfig.read (config.py 107-136)
CfgRead(c, ro, rerr, wfail) ==
    LET c0 == [c EXCEPT !.data = EmptyData] IN
    IF ~c.file.exists THEN          \* OSError ENOENT
        IF ~ro THEN LET w == CfgWrite([c0 EXCEPT !.is_dirty = TRUE], ro, wfail)
                    IN  [c |-> w.c, out |-> w.out, writes |-> w.writes]
        ELSE [c |-> c0, out |-> "OSError", writes |-> 0]
    ELSE IF rerr THEN               \* any other OSError
        [c |-> c0, out |-> "OSError", writes |-> 0]
    ELSE LET c1 == [c0 EXCEPT !.data = c.file.content, !.is_dirty = FALSE]
         IN  [c |-> c1,
              out |-> IF HasInvalidName(c1.data) THEN "ConfigNameError" ELSE "ok",
              writes |-> 0]

\* KaztronConfig.get(section, key) raises (config.py 231-240): no value, no default
CfgGetRaises(c, s, k) ==
    /\ ~(s \in c.data.secs /\ c.data.kv[<<s, k>>] # 0)
    /\ c.defaults[<<s, k>>] = 0

\* the data after KaztronConfig.set(section, key, value) (config.py 277-283)
DataSet(d, s, k, v) ==
    [secs |-> d.secs \cup {s}, kv |-> [d.kv EXCEPT ![<<s, k>>] = v]]

\* KaztronConfig.set (config.py 258-284)
CfgSet(c, ro, s, k, v) ==
    IF ro THEN [c |-> c, out |-> "ReadOnlyError", writes |-> 0]
    ELSE [c |-> [c EXCEPT !.data = DataSet(c.data, s, k, v), !.is_dirty = TRUE],
          out |-> "ok", writes |-> 0]

\* the keys of kwargs that set_defaults stores: those whose get() raises
RECURSIVE SetMissing(_, _, _, _)
SetMissing(c, s, kw, ks) ==
    IF ks = {} THEN c
    ELSE LET k == CHOOSE x \in ks : TRUE
             c1 == IF kw[k] # 0 /\ CfgGetRaises(c, s, k)
                   THEN CfgSet(c, FALSE, s, k, kw[k]).c ELSE c
         IN  SetMissing(c1, s, kw, ks \ {k})

\* KaztronConfig.set_defaults (config.py 286-311); kw[k] = 0: k not passed
CfgSetDefaults(c, ro, s, kw, wfail) ==
    IF ~ro THEN CfgWrite(SetMissing(c, s, kw, CKeys), ro, wfail)
    ELSE [c |-> [c EXCEPT !.defaults =
                    [sl \in Slots |-> IF sl[1] = s /\ kw[sl[2]] # 0
                                      THEN kw[sl[2]] ELSE c.defaults[sl]]],
          out |-> "ok", writes |-> 0]

\* KaztronConfig.notify (config.py 313-317): the body is the docstring only
CfgNotify(c) == c

Kwargs == [CKeys -> 0..MaxCVal]

\* the record kept of the latest KaztronConfig call: its name, the exception
\* it raised ("ok": none), the number of file-strategy write() calls it made,
\* the flag before it, the read_only of the object, and the call before it
CLast(op, r, before, ro) ==
    [op |-> op, out |-> r.out, writes |-> r.writes, dirtyBefore |-> before, ro |-> ro,
     prevOp |-> clast.op, prevOut |-> clast.out, prevWrites |-> clast.writes]

NoCall == [op |-> "none", out |-> "ok", writes |-> 0, dirtyBefore |-> FALSE, ro |-> FALSE,
           prevOp |-> "none", prevOut |-> "ok", prevWrites |-> 0]

SetCfg(c) ==
    /\ is_dirty' = c.is_dirty
    /\ data' = c.data
    /\ defaults' = c.defaults
    /\ file' = c.file

\* the record of a constructor call also tells the write() calls its read()
\* made and whether defaults were passed
OpenLast(cl, rw, dflt) ==
    [op |-> cl.op, out |-> cl.out, writes |-> cl.writes, dirtyBefore |-> cl.dirtyBefore,
     ro |-> cl.ro, prevOp |-> cl.prevOp, prevOut |-> cl.prevOut,
     prevWrites |-> cl.prevWrites, readWrites |-> rw, withDefaults |-> dflt]

\* KaztronConfig.__init__ (config.py 83-93): read(), then set_defaults for
\* the section of defaults passed (kw all 0: no defaults passed)
Open(ro, s, kw, rerr, wf1, wf2) ==
    /\ ~opened
    /\ LET c0 == [is_dirty |-> FALSE, data |-> EmptyData,
                  defaults |-> [sl \in Slots |-> 0], file |-> file]
           r == CfgRead(c0, ro, rerr, wf1)
           d == IF r.out = "ok" /\ kw # [k \in CKeys |-> 0]
                THEN CfgSetDefaults(r.c, ro, s, kw, wf2)
                ELSE [c |-> r.c, out |-> r.out, writes |-> 0]
           res == [c |-> d.c, out |-> d.out, writes |-> r.writes + d.writes]
       IN  /\ clast' = OpenLast(CLast("open", res, FALSE, ro), r.writes,
                                kw # [k \in CKeys |-> 0])
           /\ IF res.out = "ok"
              THEN opened' = TRUE /\ read_only' = ro /\ SetCfg(res.c)
              ELSE /\ file' = res.c.file      \* the constructor raised: no object
                   /\ UNCHANGED <<opened, read_only, is_dirty, data, defaults>>
    /\ UNCHANGED tvars

Read(rerr, wfail) ==
    /\ opened
    /\ LET r == CfgRead(CfgState, read_only, rerr, wfail)
       IN  SetCfg(r.c) /\ clast' = CLast("read", r, is_dirty, read_only)
    /\ UNCHANGED <<opened, read_only>>
    /\ UNCHANGED tvars

Write(wfail) ==
    /\ opened
    /\ LET r == CfgWrite(CfgState, read_only, wfail)
       IN  SetCfg(r.c) /\ clast' = CLast("write", r, is_dirty, read_only)
    /\ UNCHANGED <<opened, read_only>>
    /\ UNCHANGED tvars

Set(s, k, v) ==
    /\ opened
    /\ LET r == CfgSet(CfgState, read_only, s, k, v)
       IN  SetCfg(r.c) /\ clast' = CLast("set", r, is_dirty, read_only)
    /\ UNCHANGED <<opened, read_only>>
    /\ UNCHANGED tvars

SetDefaults(s, kw, wfail) ==
    /\ opened
    /\ LET r == CfgSetDefaults(CfgState, read_only, s, kw, wfail)
       IN  SetCfg(r.c) /\ clast' = CLast("set_defaults", r, is_dirty, read_only)
    /\ UNCHANGED <<opened, read_only>>
    /\ UNCHANGED tvars

Notify ==
    /\ opened
    /\ SetCfg(CfgNotify(CfgState))
    /\ clast' = CLast("notify", [out |-> "ok", writes |-> 0], is_dirty, read_only)
    /\ UNCHANGED <<opened, read_only>>
    /\ UNCHANGED tvars

\* before the constructor runs: the file exists with some content, or not
ConfigInit ==
    /\ opened = FALSE
    /\ read_only = FALSE
    /\ is_dirty = FALSE
    /\ data = EmptyData
    /\ defaults = [sl \in Slots |-> 0]
    /\ file \in {[exists |-> TRUE, content |-> fc] : fc \in FileContents}
               \cup {[exists |-> FALSE, content |-> EmptyData]}
    /\ clast = NoCall
    /\ nodes = <<>>
    /\ raws = <<>>
    /\ nonStrict = {}
    /\ fieldAttrs = <<>>
    /\ hist = <<>>
    /\ calls = 0
    /\ last = NoCall
    /\ client = NoClient

ConfigNext ==
    \/ \E ro \in BOOLEAN, s \in Sections, kw \in Kwargs, rerr \in BOOLEAN,
          wf1 \in BOOLEAN, wf2 \in BOOLEAN : Open(ro, s, kw, rerr, wf1, wf2)
    \/ \E rerr \in BOOLEAN, wfail \in BOOLEAN : Read(rerr, wfail)
    \/ \E wfail \in BOOLEAN : Write(wfail)
    \/ \E s \in Sections, k \in CKeys, v \in CVals : Set(s, k, v)
    \/ \E s \in Sections, kw \in Kwargs, wfail \in BOOLEAN : SetDefaults(s, kw, wfail)
    \/ Notify

SpecConfig == ConfigInit /\ [][ConfigNext]_vars

(***************************************************************************)
(* Values, raw data and fields (fields/fields.py)                          *)
(***************************************************************************)
MaxNodes == 4     \* node objects alive at once (the root included)
MaxRaws == 6      \* raw dict/list objects alive at once
MaxLen == 3       \* longest raw list an insert may produce
MaxInt == 2       \* integers passed to set are 0..MaxInt
MaxCalls == 3     \* node calls made in one behaviour

\* A value is a tagged pair. "int": an integer; "raw": a reference to a raw
\* dict/list (a config primitive); "node": a reference to a ConfigModel /
\* ConfigList / ConfigDict object; "plist": a plain Python list of integers
\* (v indexes PLists); "none": None; "obj": an object that is neither a
\* config primitive nor a node; "absent": no entry under that key.
IntV(i) == [t |-> "int", v |-> i]
RawV(r) == [t |-> "raw", v |-> r]
NodeV(n) == [t |-> "node", v |-> n]
PListV(i) == [t |-> "plist", v |-> i]
None == [t |-> "none", v |-> 0]
Obj == [t |-> "obj", v |-> 0]
Absent == [t |-> "absent", v |-> 0]

\* the plain lists passed to set
PLists == << <<>>, <<1>>, <<0, 1>>, <<1, 1, 1>> >>

Keys == {"n", "lst", "ll", "dct", "sub", "esub", "x", "q", "m", "u", "_r", "el", "ed",
         "write", "dl", "al", "ch", "role", "md"}

\* ConfigModelMeta._is_reserved_name (object.py 214-216), ConfigModel.get (329)
IsReservedName(key) == key \in {"_r"}

NoBound == -1000      \* a min/max/max_len that is None

\* the schema: class DataRoot(ConfigRoot) and class Sub(ConfigModel), declared
\* the way test_models.py 58-88 declares its fixtures
\*    class Sub:      x = IntegerField(default=0)
\*                    q = IntegerField(required=True, default=1)
\*                    m = IntegerField(required=True, lazy=False)
\*                    lst = ListField(type=IntegerField())
\*    class DataRoot: n = IntegerField(min=0, max=1)
\*                    lst = ListField(type=IntegerField(), min_len=1, max_len=2)
\*                    dct = DictField(type=IntegerField(max=1))
\*                    sub = ConfigModelField(type=Sub)
\*                    esub = ConfigModelField(type=Sub, lazy=False)
\*                    ll = ListField(type=ListField(type=IntegerField()))
\* and class B(ConfigRoot) with the fields of class B of test_models.py
\* 136-146, whose PotatoField converts a raw x to Potato(x, self.testattr),
\* and two containers that are not lazy
\*    class B:        x = PotatoField()
\*                    lst = ListField(type=PotatoField())
\*                    dct = DictField(type=PotatoField())
\*                    el = ListField(type=PotatoField(), lazy=False)
\*                    ed = DictField(type=PotatoField(), lazy=False)
FD(ftype, name, required, default, min, max, min_len, max_len, elem, cls) ==
    [ftype |-> ftype, name |-> name, required |-> required, lazy |-> TRUE,
     default |-> default, min |-> min, max |-> max,
     min_len |-> min_len, max_len |-> max_len, elem |-> elem, cls |-> cls]

FieldIds == {"Root.n", "Root.lst", "Root.lst.type", "Root.dct", "Root.dct.type",
             "Root.sub", "Root.esub", "Reg.dct", "RegEager.dct",
             "Root.ll", "Root.ll.type", "Root.ll.type.type", "Sub.x", "Sub.q", "Sub.m",
             "Sub.lst", "Sub.lst.type", "prim", "Unassigned", "root",
             "UnassignedList", "UnassignedDict", "UnassignedType",
             "Root.dl", "Root.al", "Root.md", "Root.md.type", "B.x", "B.lst", "B.lst.type", "B.dct", "B.dct.type",
             "B.el", "B.el.type", "B.ed", "B.ed.type"}

\* The Field objects whose convert reads an attribute set at runtime: the
\* PotatoField() of class B and of its containers (test_models.py 136-146),
\* and the names they are declared with ("-": an element type has none)
PotatoFields == {"B.x", "B.lst.type", "B.dct.type", "B.el.type", "B.ed.type"}
PotatoName(id) == IF id = "B.x" THEN "x" ELSE "-"

FieldDef(id) ==
    CASE id = "Root.n" -> FD("int", "n", FALSE, None, 0, 1, 0, NoBound, "-", "-")
      [] id = "Root.lst" -> FD("list", "lst", FALSE, None, NoBound, NoBound, 1, 2, "Root.lst.type", "-")
      [] id = "Root.lst.type" -> FD("int", "-", FALSE, None, NoBound, NoBound, 0, NoBound, "-", "-")
      [] id = "Root.dct" -> FD("dict", "dct", FALSE, None, NoBound, NoBound, 0, NoBound, "Root.dct.type", "-")
      [] id = "Root.dct.type" -> FD("int", "-", FALSE, None, NoBound, 1, 0, NoBound, "-", "-")
      [] id = "Root.sub" -> FD("model", "sub", FALSE, None, NoBound, NoBound, 0, NoBound, "-", "Sub")
      [] id = "Sub.x" -> FD("int", "x", FALSE, IntV(0), NoBound, NoBound, 0, NoBound, "-", "-")
      [] id = "Sub.q" -> FD("int", "q", TRUE, IntV(1), NoBound, NoBound, 0, NoBound, "-", "-")
      [] id = "Sub.m" -> [FD("int", "m", TRUE, None, NoBound, NoBound, 0, NoBound, "-", "-")
                          EXCEPT !.lazy = FALSE]
      [] id = "Root.esub" -> [FD("model", "esub", FALSE, None, NoBound, NoBound, 0, NoBound, "-", "Sub")
                              EXCEPT !.lazy = FALSE]
      [] id = "Root.ll" -> FD("list", "ll", FALSE, None, NoBound, NoBound, 0, NoBound, "Root.ll.type", "-")
      [] id = "Root.ll.type" -> FD("list", "-", FALSE, None, NoBound, NoBound, 0, NoBound, "Root.ll.type.type", "-")
      [] id = "Root.ll.type.type" -> FD("int", "-", FALSE, None, NoBound, NoBound, 0, NoBound, "-", "-")
      \* dl = ListField(type=IntegerField(), default=[]), as the lists of
      \* core_config.py 59-63 and core.py 25-28 are declared
      [] id = "Root.dl" -> FD("list", "dl", FALSE, PListV(1), NoBound, NoBound, 0, NoBound, "Root.lst.type", "-")
      \* al = IntegerField(name='u'): the attribute key differs from the name
      \* (fields.py 57-59)
      [] id = "Root.al" -> FD("int", "u", FALSE, None, NoBound, NoBound, 0, NoBound, "-", "-")
      \* md = DictField(type=ConfigModelField(type=Sub), lazy=False), a dict
      \* of models as meowmap of test_models.py 628-630, converted on binding
      [] id = "Root.md" -> [FD("dict", "md", FALSE, None, NoBound, NoBound, 0, NoBound, "Root.md.type", "-")
                            EXCEPT !.lazy = FALSE]
      [] id = "Root.md.type" -> FD("model", "-", FALSE, None, NoBound, NoBound, 0, NoBound, "-", "Sub")
      [] id = "Sub.lst" -> FD("list", "lst", FALSE, None, NoBound, NoBound, 0, NoBound, "Sub.lst.type", "-")
      [] id = "Sub.lst.type" -> FD("int", "-", FALSE, None, NoBound, NoBound, 0, NoBound, "-", "-")
      [] id \in PotatoFields ->
            FD("potato", PotatoName(id), FALSE, None,
               NoBound, NoBound, 0, NoBound, "-", "-")
      [] id = "B.lst" -> FD("list", "lst", FALSE, None, NoBound, NoBound, 0, NoBound, "B.lst.type", "-")
      [] id = "B.dct" -> FD("dict", "dct", FALSE, None, NoBound, NoBound, 0, NoBound, "B.dct.type", "-")
      [] id = "B.el" -> [FD("list", "el", FALSE, None, NoBound, NoBound, 0, NoBound, "B.el.type", "-")
                         EXCEPT !.lazy = FALSE]
      [] id = "B.ed" -> [FD("dict", "ed", FALSE, None, NoBound, NoBound, 0, NoBound, "B.ed.type", "-")
                         EXCEPT !.lazy = FALSE]
      \* ConfigRoot.cfg_register_model('dct', Sub) and
      \* cfg_register_model('dct', Sub, lazy=False) (object.py 461-464)
      [] id = "Reg.dct" -> FD("model", "dct", FALSE, None, NoBound, NoBound, 0, NoBound, "-", "Sub")
      [] id = "RegEager.dct" -> [FD("model", "dct", FALSE, None, NoBound, NoBound, 0, NoBound, "-", "Sub")
                                 EXCEPT !.lazy = FALSE]
      \* ConfigModel._get_default_field (object.py 271-273); its name is the key
      [] id = "prim" -> FD("prim", "-", TRUE, None, NoBound, NoBound, 0, NoBound, "-", "-")
      \* ConfigModel.__init__ (object.py 250), ConfigRoot.__init__ (449)
      [] id = "Unassigned" -> FD("model", "Unassigned", FALSE, None, NoBound, NoBound, 0, NoBound, "-", "Sub")
      [] id = "root" -> FD("model", "root", FALSE, None, NoBound, NoBound, 0, NoBound, "-", "Root")
      \* ConfigList.__init__ (object.py 510), ConfigDict.__init__ (640)
      [] id = "UnassignedList" -> FD("list", "Unassigned", FALSE, None, NoBound, NoBound, 0, NoBound, "UnassignedType", "-")
      [] id = "UnassignedDict" -> FD("dict", "Unassigned", FALSE, None, NoBound, NoBound, 0, NoBound, "UnassignedType", "-")
      [] id = "UnassignedType" -> FD("prim", "-", FALSE, None, NoBound, NoBound, 0, NoBound, "-", "-")

\* __config_fields__ of a class (object.py 191-212). cfg_register_model
\* assigns into the __config_fields__ of the root's class (object.py 464):
\* "RootReg" and "RootRegEager" are DataRoot once 'dct' is registered to Sub,
\* lazy and not lazy.
ConfigFields(cls) ==
    CASE cls = "Root" -> [k \in {"n", "lst", "ll", "dct", "sub", "esub", "dl", "al", "md"} |-> "Root." \o k]
      [] cls = "RootReg" ->
            [k \in {"n", "lst", "ll", "dct", "sub", "esub", "dl", "al", "md"} |->
                IF k = "dct" THEN "Reg.dct" ELSE "Root." \o k]
      [] cls = "RootRegEager" ->
            [k \in {"n", "lst", "ll", "dct", "sub", "esub", "dl", "al", "md"} |->
                IF k = "dct" THEN "RegEager.dct" ELSE "Root." \o k]
      [] cls = "Sub" -> [k \in {"x", "q", "m", "lst"} |-> "Sub." \o k]
      [] cls = "B" -> [k \in {"x", "lst", "dct", "el", "ed"} |-> "B." \o k]

\* ConfigModel.cfg_field_keys (object.py 275-281)
cfg_field_keys(cls) == DOMAIN ConfigFields(cls)

\* A reference to a Field object: the declaration it comes from, the object
\* it belongs to (inst = 0: the one object of the schema; inst = i: the field
\* that node i created for itself) and its name attribute.
FRef(id, inst, name) == [id |-> id, inst |-> inst, name |-> name]
SchemaField(id) == FRef(id, 0, FieldDef(id).name)
NoField == FRef("-", 0, "-")

\* ConfigModel.cfg_get_field (object.py 261-269)
cfg_get_field(cls, key) ==
    IF key \in cfg_field_keys(cls) THEN SchemaField(ConfigFields(cls)[key])
    ELSE FRef("prim", 0, key)

\* isinstance(value, typing.get_args(ConfigPrimitive)) (fields.py 14, 104)
IsPrimitive(v) == v.t \in {"int", "raw", "plist"}

\* IntegerField._is_valid_range (fields.py 181-184)
is_valid_range(fd, i) ==
    /\ (fd.min = NoBound \/ fd.min <= i)
    /\ (fd.max = NoBound \/ i <= fd.max)

\* IntegerField.convert / serialize (fields.py 167-179), PrimitiveField.convert
\* (100-101): the value returned, or the exception raised
ScalarConvert(fd, v) ==
    IF fd.ftype = "int" THEN
        IF v.t # "int" THEN [out |-> "TypeError", ret |-> None]
        ELSE IF ~is_valid_range(fd, v.v) THEN [out |-> "ValueError", ret |-> None]
        ELSE [out |-> "ok", ret |-> v]
    ELSE [out |-> "ok", ret |-> v]

\* IntegerField.serialize (fields.py 174-179), PrimitiveField.serialize (103-106)
ScalarSerialize(fd, v) ==
    IF fd.ftype = "int" THEN ScalarConvert(fd, v)
    \* PotatoField.serialize (test_models.py 140-141): value.x
    ELSE IF fd.ftype = "potato" THEN
        IF v.t = "potato" THEN [out |-> "ok", ret |-> [t |-> "int", v |-> v.v]]
        ELSE [out |-> "AttributeError", ret |-> None]
    ELSE IF ~IsPrimitive(v) THEN [out |-> "TypeError", ret |-> None]
    ELSE [out |-> "ok", ret |-> v]

(***************************************************************************)
(* The node heap (object.py)                                               *)
(***************************************************************************)
\* A heap: the node objects, the raw dicts/lists and the ConfigModelField
\* objects whose strict_keys attribute was assigned False.
Heap == [nodes |-> nodes, raws |-> raws, ns |-> nonStrict, fa |-> fieldAttrs]

NoKeys == [k \in Keys |-> Absent]

\* The Field types that runtime attributes are set for, with their
\* superclasses in method resolution order (fields.py 97, 157), and the
\* names of the attributes; a table maps a name to its value, 0 when the
\* table has no such name.
ScalarTypes == {"IntegerField", "PrimitiveField"}
FTypes == ScalarTypes \cup {"PotatoField"}
Mro(F) == IF F = "IntegerField" THEN <<"IntegerField", "PrimitiveField">>
          ELSE <<F>>
AttrNames == {"a", "b"}
NoAttrs == [a \in AttrNames |-> 0]

\* ConfigNodeMixin.__init__ (object.py 20-26) with the attributes of
\* ConfigModel (250-252), ConfigList (512-514) and ConfigDict (641-642)
MkNode(kind, cls, field, parent, root, rawid) ==
    [kind |-> kind, cls |-> cls, field |-> field, parent |-> parent, root |-> root,
     pidx |-> -1, data |-> rawid, conv |-> NoKeys, lconv |-> <<>>, cmap |-> <<>>,
     attrs |-> [F \in FTypes |-> NoAttrs]]

RawDict(d) == [kind |-> "dict", d |-> d, l |-> <<>>]
RawList(l) == [kind |-> "list", d |-> NoKeys, l |-> l]

AllocRaw(h, obj) == [h EXCEPT !.raws = Append(@, obj)]
AllocNode(h, node) == [h EXCEPT !.nodes = Append(@, node)]

IsRawDict(h, v) == v.t = "raw" /\ h.raws[v.v].kind = "dict"
IsRawList(h, v) == v.t = "raw" /\ h.raws[v.v].kind = "list"

\* the field that a list or dict node converts its elements with:
\* self.__config_field__.type (object.py 566, 582, 682, 696)
ElemOf(id) == FRef(id, 0, FieldDef(id).name)
ElemField(h, n) == ElemOf(FieldDef(h.nodes[n].field.id).elem)

\* self.__config_field__.strict_keys (object.py 343, 368; fields.py 457)
strict_keys(h, fref) == <<fref.id, fref.inst>> \notin h.ns

\* dict.update that keeps the entries the dict already has
AttrKeep(res, tab) == [a \in AttrNames |-> IF res[a] # 0 THEN res[a] ELSE tab[a]]

\* resolved_attributes.update(table) (object.py 137)
AttrUpdate(res, tab) == [a \in AttrNames |-> IF tab[a] # 0 THEN tab[a] ELSE res[a]]

\* the loop over FieldType.__mro__ (object.py 135-139)
RECURSIVE MergeMro(_, _, _)
MergeMro(res, tabs, mro) ==
    IF mro = <<>> THEN res
    ELSE MergeMro(AttrUpdate(res, tabs[Head(mro)]), tabs, Tail(mro))

\* ConfigNodeMixin.cfg_get_runtime_attributes (object.py 124-140)
RECURSIVE cfg_get_runtime_attributes(_, _, _, _)
cfg_get_runtime_attributes(h, n, F, fuel) ==
    MergeMro(IF h.nodes[n].parent = 0 \/ fuel = 0 THEN NoAttrs
             ELSE cfg_get_runtime_attributes(h, h.nodes[n].parent, F, fuel - 1),
             h.nodes[n].attrs, Mro(F))

\* ConfigNodeMixin.cfg_set_runtime_attributes (object.py 105-122)
cfg_set_runtime_attributes(h, n, F, kw) == [h EXCEPT !.nodes[n].attrs[F] = kw]

\* the state of a Field object that has no testattr attribute yet
NoFieldAttrs == [id \in PotatoFields |-> 0]

\* Potato(x, t) (test_models.py 131-134)
Potato(x, t) == [t |-> "potato", v |-> x, a |-> t]

\* the testattr of the field after ConfigNodeMixin._update_runtime_attributes
\* (object.py 101-103): the value the table resolved at node n has for it,
\* the value it had when the table has none
SetAttr(new, old) == IF new # 0 THEN new ELSE old

Refreshed(h, n, id) ==
    SetAttr(cfg_get_runtime_attributes(h, n, "PotatoField", MaxNodes)["a"], h.fa[id])

\* _update_runtime_attributes(field) for a field of the schema; the copy a
\* ConfigDict converts through (object.py 672-673) has the key for its name
\* and is dropped after the conversion
update_runtime_attributes(h, n, fref) ==
    IF fref.id \in PotatoFields /\ fref.name = PotatoName(fref.id)
    THEN [h EXCEPT !.fa[fref.id] = Refreshed(h, n, fref.id)]
    ELSE h

\* PotatoField.convert (test_models.py 137-138) on a field whose testattr is
\* t; 0: the field has no such attribute
PotatoConvert(h, t, rv) ==
    IF t = 0 THEN [h |-> h, out |-> "AttributeError", ret |-> None]
    ELSE [h |-> h, out |-> "ok", ret |-> Potato(rv.v, t)]

\* One step of a path: a field name (idx = -1) or a list index.
PathName(name) == [name |-> name, idx |-> -1]
PathIndex(i) == [name |-> "", idx |-> i]

\* node_name of ConfigNodeMixin.cfg_path (object.py 151-154); the name "-"
\* stands for a Field name that is None
node_name(node) ==
    IF node.pidx < 0
    THEN PathName(IF node.field.name = "-" THEN "<null>" ELSE node.field.name)
    ELSE PathIndex(node.pidx)

\* ConfigNodeMixin.cfg_path (object.py 149-159), ConfigRoot.cfg_path (474-476)
RECURSIVE cfg_path(_, _, _)
cfg_path(h, n, fuel) ==
    IF h.nodes[n].kind = "root" THEN <<>>
    ELSE IF h.nodes[n].parent = 0 \/ fuel = 0 THEN <<node_name(h.nodes[n])>>
    ELSE Append(cfg_path(h, h.nodes[n].parent, fuel - 1), node_name(h.nodes[n]))

\* ConfigNodeMixin.cfg_read_only (object.py 161-166), ConfigRoot.cfg_read_only
\* (478-480): the read_only of the root's KaztronConfig, False without a root
cfg_read_only(h, n, ro) == h.nodes[n].root # 0 /\ ro

\* cfg_notify_update that does not pass the notification on to the parent
NotifyNotPassedOn(h, n, fuel) ==
    IF h.nodes[n].kind = "root" THEN 1 ELSE 0

\* ConfigNodeMixin.cfg_notify_update (object.py 38-42), ConfigRoot's (482-483):
\* the number of KaztronConfig.notify() calls one notification ends in
RECURSIVE cfg_notify_update(_, _, _)
cfg_notify_update(h, n, fuel) ==
    IF h.nodes[n].kind = "root" THEN 1
    ELSE IF h.nodes[n].parent = 0 \/ fuel = 0 THEN 0
    ELSE cfg_notify_update(h, h.nodes[n].parent, fuel - 1)

Repeat(x, len) == [i \in 1..len |-> x]

\* max_ok and min_ok of ConfigList.cfg_set_data (object.py 528-531)
length_ok(fd, len) ==
    /\ (fd.max_len = NoBound \/ fd.max_len = 0 \/ len <= fd.max_len)
    /\ len >= fd.min_len

\* ConfigModel.keys / ConfigDict.__iter__ (object.py 283-288, 669-670)
RawKeys(h, n) == {k \in Keys : h.raws[h.nodes[n].data].d[k] # Absent}

\* the gets of ConfigModel.clear_cache on a model whose own field is not lazy
\* (object.py 295-305): the keys of the raw data first, then the declared
\* keys; the first get that raises ends the call
RECURSIVE ModelGet(_, _, _)
RECURSIVE ConvertAll(_, _, _, _)
ConvertNext(n, first, rest, k, g) ==
    IF g.out # "ok" THEN [h |-> g.h, out |-> g.out]
    ELSE ConvertAll(g.h, n, first \ {k}, rest \ {k})

ConvertKey(h, n, first, rest, k) == ConvertNext(n, first, rest, k, ModelGet(h, n, k))

ConvertAll(h, n, first, rest) ==
    IF first # {} THEN ConvertKey(h, n, first, rest, CHOOSE k \in first : TRUE)
    ELSE IF rest # {} THEN ConvertKey(h, n, first, rest, CHOOSE k \in rest : TRUE)
    ELSE [h |-> h, out |-> "ok"]

\* ConfigModel.clear_cache once _converted is cleared (object.py 295-305)
ModelCleared(h, n, fd) ==
    IF fd.lazy THEN [h |-> h, out |-> "ok"]
    ELSE ConvertAll(h, n, RawKeys(h, n), cfg_field_keys(h.nodes[n].cls))

\* the result of a scalar conversion, which leaves the heap as it is
ScalarResult(h, c) == [h |-> h, out |-> c.out, ret |-> c.ret]

\* self.type.convert(raw_item) of ListField.convert and DictField.convert
\* (fields.py 407-408, 426-427): the element's Field object as it is; the
\* containers of the schema that are not lazy hold Potatoes
ElemConvert(h, eid, rv) ==
    IF eid \in PotatoFields THEN PotatoConvert(h, h.fa[eid], rv)
    ELSE ScalarResult(h, ScalarConvert(FieldDef(eid), rv))

\* the list comprehension of ListField.convert (fields.py 408): conv holds
\* the conversions of the items; the first that raises ends it
ListEager(h, n, conv) ==
    IF \E i \in DOMAIN conv : conv[i].out # "ok"
    THEN [h |-> h,
          out |-> conv[CHOOSE i \in DOMAIN conv :
                          /\ conv[i].out # "ok"
                          /\ \A j \in 1..(i - 1) : conv[j].out = "ok"].out]
    ELSE [h |-> [h EXCEPT !.nodes[n].lconv = [i \in DOMAIN conv |-> conv[i].ret],
                          !.nodes[n].cmap = Repeat(TRUE, Len(conv))],
          out |-> "ok"]

\* ConfigList.clear_cache (object.py 536-548) on the raw list l; el has no
\* length bounds, so ListField._validate_length passes
ListCleared(h, n, l, fd) ==
    IF fd.lazy
    THEN [h |-> [h EXCEPT !.nodes[n].lconv = Repeat(None, Len(l)),
                          !.nodes[n].cmap = Repeat(FALSE, Len(l))],
          out |-> "ok"]
    ELSE ListEager(h, n, [i \in 1..Len(l) |-> ElemConvert(h, fd.elem, l[i])])

\* the dict comprehension of DictField.convert (fields.py 427): conv holds
\* the conversions of the values of the keys the raw dict has
DictEager(h, n, d, conv) ==
    IF \E k \in Keys : d[k] # Absent /\ conv[k].out # "ok"
    THEN [h |-> h,
          out |-> conv[CHOOSE k \in Keys : d[k] # Absent /\ conv[k].out # "ok"].out]
    ELSE [h |-> [h EXCEPT !.nodes[n].conv =
                              [k \in Keys |-> IF d[k] = Absent THEN Absent ELSE conv[k].ret]],
          out |-> "ok"]

\* ConfigDict.cfg_set_data from the second line on, and ConfigDict.clear_cache
\* (object.py 655-667), on the raw dict d
DictCleared(h, n, d, fd) ==
    IF fd.lazy THEN [h |-> h, out |-> "ok"]
    ELSE DictEager(h, n, d, [k \in Keys |-> ElemConvert(h, fd.elem, d[k])])

\* ConfigModel.cfg_set_data + clear_cache (object.py 257-259, 290-305),
\* ConfigList.cfg_set_data + clear_cache (520-548),
\* ConfigDict.cfg_set_data (648-659)
SetDataAs(h, n, rv, fd) ==
    IF h.nodes[n].kind \in {"root", "model"} THEN
        ModelCleared([h EXCEPT !.nodes[n].data = rv.v, !.nodes[n].conv = NoKeys], n, fd)
    ELSE IF h.nodes[n].kind = "list" THEN
        IF ~length_ok(fd, Len(h.raws[rv.v].l))
        THEN [h |-> h, out |-> "IndexError"]
        ELSE ListCleared([h EXCEPT !.nodes[n].data = rv.v], n, h.raws[rv.v].l, fd)
    ELSE DictCleared([h EXCEPT !.nodes[n].data = rv.v, !.nodes[n].conv = NoKeys],
                     n, h.raws[rv.v].d, fd)

cfg_set_data(h, n, rv) == SetDataAs(h, n, rv, FieldDef(h.nodes[n].field.id))

\* node.cfg_set_field(field); node.cfg_set_parent(self) (object.py 96-97)
Adopt(h, p, fref, v) ==
    [h EXCEPT !.nodes[v.v].field = fref,
              !.nodes[v.v].parent = p,
              !.nodes[v.v].root = h.nodes[p].root]

\* _update_child_node that leaves _parent_index as it is
IndexNotSet(r, v, idx) == r

\* node._parent_index = index (object.py 555-556); idx < 0: no index passed
SetIndex(r, v, idx) ==
    IF r.out = "ok" /\ idx >= 0 THEN [r EXCEPT !.h.nodes[v.v].pidx = idx] ELSE r

\* ConfigNodeMixin._update_child_node (object.py 88-99) and ConfigList's
\* (553-557); hasRaw: raw_value was passed, idx >= 0: index was passed
Adopted(h, p, fref, v, rv, hasRaw, idx) ==
    IF v.t # "node" THEN [h |-> h, out |-> "ok"]
    ELSE IF hasRaw THEN SetIndex(cfg_set_data(Adopt(h, p, fref, v), v.v, rv), v, idx)
    ELSE SetIndex([h |-> Adopt(h, p, fref, v), out |-> "ok"], v, idx)

update_child_node(h, p, fref, v, rv, hasRaw, idx) ==
    Adopted(update_runtime_attributes(h, p, fref), p, fref, v, rv, hasRaw, idx)

\* the node created for a raw dict/list, once cfg_set_data has run on it
\* (object.py 71-83, 560-562)
Converted(h, idx, new, r) ==
    IF r.out # "ok" THEN [h |-> h, out |-> r.out, ret |-> None]
    ELSE [h |-> IF idx >= 0 THEN [r.h EXCEPT !.nodes[new].pidx = idx] ELSE r.h,
          out |-> "ok", ret |-> NodeV(new)]

\* ConfigNodeMixin._convert_child_node (object.py 50-86) and ConfigList's
\* (559-563) through a field with the attributes fd.  A ConfigModelField is
\* converted by field.convert(raw_value, self) (line 69), and
\* ConfigModelField.convert takes one argument (fields.py 463): the call
\* raises TypeError.
ConvertAs(h, p, fref, rv, idx, fd) ==
    CASE fd.ftype = "model" -> [h |-> h, out |-> "TypeError", ret |-> None]
      [] fd.ftype = "dict" ->
            IF ~IsRawDict(h, rv) THEN [h |-> h, out |-> "ValueError", ret |-> None]
            ELSE Converted(h, idx, Len(h.nodes) + 1,
                           cfg_set_data(AllocNode(h, MkNode("dict", "-", fref, p, h.nodes[p].root, 0)),
                                        Len(h.nodes) + 1, rv))
      [] fd.ftype = "list" ->
            IF ~IsRawList(h, rv) THEN [h |-> h, out |-> "ValueError", ret |-> None]
            ELSE Converted(h, idx, Len(h.nodes) + 1,
                           cfg_set_data(AllocNode(h, MkNode("list", "-", fref, p, h.nodes[p].root, 0)),
                                        Len(h.nodes) + 1, rv))
      [] fd.ftype = "potato" ->
            PotatoConvert(update_runtime_attributes(h, p, fref), Refreshed(h, p, fref.id), rv)
      [] OTHER -> ScalarResult(h, ScalarConvert(fd, rv))

convert_child_node(h, p, fref, rv, idx) == ConvertAs(h, p, fref, rv, idx, FieldDef(fref.id))

\* a cache hit: the cached object, its metadata set again (object.py 321-327,
\* 567-571, 682-686)
Cached(h, n, field, obj, idx) ==
    [h |-> update_child_node(h, n, field, obj, None, FALSE, idx).h, out |-> "ok", ret |-> obj]

\* ConfigModel.get, the end (object.py 347-353): c is the conversion's result
ModelConverted(h, n, key, cache, c) ==
    IF c.out # "ok" THEN [h |-> h, out |-> "ConfigConverterError", ret |-> None]
    ELSE [h |-> IF cache THEN [c.h EXCEPT !.nodes[n].conv[key] = c.ret] ELSE c.h,
          out |-> "ok", ret |-> c.ret]

\* ConfigModel.get on a cache miss that stores the default it falls back to
\* in the raw data
ReadStoresDefault(h, n, key, field, fd, raw, cache) ==
    IF IsReservedName(key) THEN [h |-> h, out |-> "ConfigNameError", ret |-> None]
    ELSE IF raw = Absent /\ fd.required THEN [h |-> h, out |-> "ConfigKeyError", ret |-> None]
    ELSE IF /\ raw # Absent
            /\ strict_keys(h, h.nodes[n].field)
            /\ key \notin cfg_field_keys(h.nodes[n].cls)
         THEN [h |-> h, out |-> "ConfigKeyError", ret |-> None]
    ELSE ModelConverted(h, n, key, cache,
                        convert_child_node(
                            IF raw = Absent /\ fd.default # None
                            THEN [h EXCEPT !.raws[h.nodes[n].data].d[field.name] = fd.default]
                            ELSE h,
                            n, field, IF raw # Absent THEN raw ELSE fd.default, -1))

\* ConfigModel.get on a cache miss that falls back to the default before it
\* looks at required
ReadDefaultFirst(h, n, key, field, fd, raw, cache) ==
    IF IsReservedName(key) THEN [h |-> h, out |-> "ConfigNameError", ret |-> None]
    ELSE IF raw = Absent /\ fd.required /\ fd.default = None
         THEN [h |-> h, out |-> "ConfigKeyError", ret |-> None]
    ELSE IF /\ raw # Absent
            /\ strict_keys(h, h.nodes[n].field)
            /\ key \notin cfg_field_keys(h.nodes[n].cls)
         THEN [h |-> h, out |-> "ConfigKeyError", ret |-> None]
    ELSE ModelConverted(h, n, key, cache,
                        convert_child_node(h, n, field, IF raw # Absent THEN raw ELSE fd.default, -1))


IntSeq(l) == [i \in 1..Len(l) |-> IntV(l[i])]

\* copy(field.default) (object.py 341): a new list object for a list, the
\* value itself for an integer or None
CopyDefault(h, d) ==
    IF d.t = "plist"
    THEN [h |-> AllocRaw(h, RawList(IntSeq(PLists[d.v]))), ret |-> RawV(Len(h.raws) + 1)]
    ELSE [h |-> h, ret |-> d]

\* the raw value ConfigModel.get converts (object.py 333-341): the file's
\* value, or a copy of the default
RawOrCopy(h, n, field, fd, raw) ==
    IF raw # Absent THEN [h |-> h, ret |-> raw] ELSE CopyDefault(h, fd.default)

\* ConfigModel.get from the conversion on (object.py 346-353)
ReadFrom(n, key, field, cache, src) ==
    ModelConverted(src.h, n, key, cache, convert_child_node(src.h, n, field, src.ret, -1))

\* ConfigModel.get on a cache miss (object.py 329-345): raw is
\* self._data[field.name], Absent on a KeyError
ModelRead(h, n, key, field, fd, raw, cache) ==
    IF IsReservedName(key) THEN [h |-> h, out |-> "ConfigNameError", ret |-> None]
    ELSE IF raw = Absent /\ fd.required THEN [h |-> h, out |-> "ConfigKeyError", ret |-> None]
    ELSE IF /\ raw # Absent
            /\ strict_keys(h, h.nodes[n].field)
            /\ key \notin cfg_field_keys(h.nodes[n].cls)
         THEN [h |-> h, out |-> "ConfigKeyError", ret |-> None]
    ELSE ReadFrom(n, key, field, cache, RawOrCopy(h, n, field, fd, raw))

ModelLookup(h, n, key, field, cache) ==
    ModelRead(h, n, key, field, FieldDef(field.id), h.raws[h.nodes[n].data].d[field.name], cache)

\* ConfigModel.get without the converter cache
GetNoCache(h, n, key) ==
    ModelLookup(h, n, key, cfg_get_field(h.nodes[n].cls, key), FALSE)

\* ConfigModel.get (object.py 307-353)
ModelGet(h, n, key) ==
    IF h.nodes[n].conv[key] # Absent
    THEN Cached(h, n, cfg_get_field(h.nodes[n].cls, key), h.nodes[n].conv[key], -1)
    ELSE ModelLookup(h, n, key, cfg_get_field(h.nodes[n].cls, key), TRUE)

\* ConfigRoot.cfg_register_model(key, Sub, lazy=lazy), from the assignment
\* of the new field on (object.py 464-468): h is the heap with the field in
\* the class of the root
Registered(h, n, key, lazy) ==
    IF lazy THEN [h |-> h, out |-> "ok", ret |-> None] ELSE ModelGet(h, n, key)

\* self.__config_fields__[key] = field (object.py 464): the instance has no
\* __config_fields__ of its own, so the assignment is into the dict of its
\* class (191-193) and every object of class cls has the field from then on
ClassAssigned(h, cls, new) ==
    [h EXCEPT !.nodes = [i \in DOMAIN @ |-> IF @[i].cls = cls THEN [@[i] EXCEPT !.cls = new]
                                              ELSE @[i]]]

\* ConfigRoot.cfg_register_model('dct', Sub, lazy=lazy) (object.py 456-468)
cfg_register_model(h, n, lazy) ==
    Registered(ClassAssigned(h, h.nodes[n].cls, IF lazy THEN "RootReg" ELSE "RootRegEager"),
               n, "dct", lazy)

\* root.write(), the call of ConfigNodeMixin.cfg_write (object.py 46), as far
\* as the exception it ends in: no class of the root defines an attribute
\* named write, so the lookup ends in ConfigModel.__getattr__ (404-405),
\* i.e. get('write'); a value read from the file is not callable
RootWrite(g) ==
    IF g.out = "ok" THEN [h |-> g.h, out |-> "TypeError", writes |-> 0]
    ELSE [h |-> g.h, out |-> g.out, writes |-> 0]

\* except AttributeError: pass (object.py 47-48); ConfigKeyError is a
\* subclass of AttributeError (error.py 34)
ExceptAttributeError(r) ==
    IF r.out \in {"AttributeError", "ConfigKeyError"} THEN [r EXCEPT !.out = "ok"] ELSE r

\* ConfigNodeMixin.cfg_write (object.py 44-48), ConfigRoot.cfg_write
\* (485-486): writes is the number of calls of KaztronConfig.write()
cfg_write(h, n) ==
    IF h.nodes[n].kind = "root" THEN [h |-> h, out |-> "ok", writes |-> 1]
    ELSE IF h.nodes[n].root = 0
    THEN ExceptAttributeError([h |-> h, out |-> "AttributeError", writes |-> 0])
    ELSE ExceptAttributeError(RootWrite(ModelGet(h, h.nodes[n].root, "write")))

\* ConfigList.__getitem__, the end (object.py 575-577)
ListConverted(n, i, c) ==
    IF c.out # "ok" THEN c
    ELSE [c EXCEPT !.h.nodes[n].lconv[i] = c.ret, !.h.nodes[n].cmap[i] = TRUE]

\* ConfigList.__getitem__ (object.py 565-579); index i counts from 1 here
ListGet(h, n, i) ==
    IF i > Len(h.nodes[n].cmap) THEN [h |-> h, out |-> "IndexError", ret |-> None]
    ELSE IF h.nodes[n].cmap[i] THEN Cached(h, n, ElemField(h, n), h.nodes[n].lconv[i], i - 1)
    ELSE IF i > Len(h.raws[h.nodes[n].data].l) THEN [h |-> h, out |-> "IndexError", ret |-> None]
    ELSE ListConverted(n, i, convert_child_node(h, n, ElemField(h, n),
                                                h.raws[h.nodes[n].data].l[i], i - 1))

\* ConfigDict.__getitem__, the end (object.py 689-690)
DictConverted(n, key, c) ==
    IF c.out # "ok" THEN c ELSE [c EXCEPT !.h.nodes[n].conv[key] = c.ret]

\* ConfigDict.__getitem__ + _convert_child_node (object.py 675-691): a miss
\* converts through copy(field) with name = key, a hit passes field itself
DictGet(h, n, key) ==
    IF h.nodes[n].conv[key] # Absent
    THEN Cached(h, n, ElemField(h, n), h.nodes[n].conv[key], -1)
    ELSE IF h.raws[h.nodes[n].data].d[key] = Absent
    THEN [h |-> h, out |-> "KeyError", ret |-> None]
    ELSE DictConverted(n, key, convert_child_node(h, n, [ElemField(h, n) EXCEPT !.name = key],
                                                  h.raws[h.nodes[n].data].d[key], -1))

\* ListField._validate_length (fields.py 403-405)
validate_length(fd, len) ==
    \/ fd.max_len = NoBound /\ fd.min_len <= len
    \/ fd.min_len <= len /\ len <= fd.max_len

\* [self.type.serialize(obj_item) for obj_item in obj_list] over a plain list
\* (fields.py 415): the first exception raised, if any
RECURSIVE SerPlain(_, _, _)
SerPlain(efd, l, i) ==
    IF i > Len(l) THEN "ok"
    ELSE IF ScalarSerialize(efd, IntV(l[i])).out # "ok" THEN ScalarSerialize(efd, IntV(l[i])).out
    ELSE SerPlain(efd, l, i + 1)

\* the same comprehension over a ConfigList: Sequence.__iter__ reads self[0],
\* self[1], ... through __getitem__ until it raises IndexError
RECURSIVE SerListNode(_, _, _, _, _)
SerListItem(h, n, efd, i, acc, g, e) ==
    IF g.out = "IndexError" THEN [h |-> h, out |-> "ok", l |-> acc]
    ELSE IF g.out # "ok" THEN [h |-> g.h, out |-> g.out, l |-> acc]
    ELSE IF e.out # "ok" THEN [h |-> g.h, out |-> e.out, l |-> acc]
    ELSE SerListNode(g.h, n, efd, i + 1, Append(acc, e.ret))

SerListRead(h, n, efd, i, acc, g) ==
    SerListItem(h, n, efd, i, acc, g, ScalarSerialize(efd, g.ret))

SerListNode(h, n, efd, i, acc) == SerListRead(h, n, efd, i, acc, ListGet(h, n, i))

\* {key: self.type.serialize(item) for key, item in obj_dict.items()} over a
\* ConfigDict (fields.py 433): Mapping.items reads self[key] for every raw key
RECURSIVE SerDictNode(_, _, _, _, _)
SerDictItem(n, efd, ks, acc, k, g, e) ==
    IF g.out # "ok" THEN [h |-> g.h, out |-> g.out, d |-> acc]
    ELSE IF e.out # "ok" THEN [h |-> g.h, out |-> e.out, d |-> acc]
    ELSE SerDictNode(g.h, n, efd, ks \ {k}, [acc EXCEPT ![k] = e.ret])

SerDictRead(n, efd, ks, acc, k, g) ==
    SerDictItem(n, efd, ks, acc, k, g, ScalarSerialize(efd, g.ret))

SerDictKey(h, n, efd, ks, acc, k) == SerDictRead(n, efd, ks, acc, k, DictGet(h, n, k))

SerDictNode(h, n, efd, ks, acc) ==
    IF ks = {} THEN [h |-> h, out |-> "ok", d |-> acc]
    ELSE SerDictKey(h, n, efd, ks, acc, CHOOSE x \in ks : TRUE)

\* ConfigModelField.serialize (fields.py 469-470):
\* {key: value.get(key) for key in value.keys()}
RECURSIVE SerModelNode(_, _, _, _)
SerModelItem(n, ks, acc, k, g) ==
    IF g.out # "ok" THEN [h |-> g.h, out |-> g.out, d |-> acc]
    ELSE SerModelNode(g.h, n, ks \ {k}, [acc EXCEPT ![k] = g.ret])

SerModelKey(h, n, ks, acc, k) == SerModelItem(n, ks, acc, k, ModelGet(h, n, k))

SerModelNode(h, n, ks, acc) ==
    IF ks = {} THEN [h |-> h, out |-> "ok", d |-> acc]
    ELSE SerModelKey(h, n, ks, acc, CHOOSE x \in ks : TRUE)

\* the new raw list / dict a container field serialises to, unless an element
\* raised (fields.py 415, 433-434, 470)
StoredList(r) ==
    IF r.out # "ok" THEN [h |-> r.h, out |-> r.out, ret |-> None]
    ELSE [h |-> AllocRaw(r.h, RawList(r.l)), out |-> "ok", ret |-> RawV(Len(r.h.raws) + 1)]

StoredDict(r) ==
    IF r.out # "ok" THEN [h |-> r.h, out |-> r.out, ret |-> None]
    ELSE [h |-> AllocRaw(r.h, RawDict(r.d)), out |-> "ok", ret |-> RawV(Len(r.h.raws) + 1)]

StoredPlain(h, l, e) ==
    IF e # "ok" THEN [h |-> h, out |-> e, ret |-> None]
    ELSE [h |-> AllocRaw(h, RawList(IntSeq(l))), out |-> "ok", ret |-> RawV(Len(h.raws) + 1)]

IsKind(h, v, k) == v.t = "node" /\ h.nodes[v.v].kind = k

\* ListField.serialize (fields.py 412-415)
SerializeList(h, v, fd, efd) ==
    IF v.t = "plist" THEN
        IF ~validate_length(fd, Len(PLists[v.v]))
        THEN [h |-> h, out |-> "ValueError", ret |-> None]
        ELSE StoredPlain(h, PLists[v.v], SerPlain(efd, PLists[v.v], 1))
    ELSE IF IsKind(h, v, "list") THEN
        IF ~validate_length(fd, Len(h.raws[h.nodes[v.v].data].l))
        THEN [h |-> h, out |-> "ValueError", ret |-> None]
        ELSE StoredList(SerListNode(h, v.v, efd, 1, <<>>))
    ELSE [h |-> h, out |-> "TypeError", ret |-> None]

\* Field.serialize of a field with the attributes fd (element attributes efd)
SerializeAs(h, v, fd, efd) ==
    CASE fd.ftype = "list" -> SerializeList(h, v, fd, efd)
      [] fd.ftype = "dict" ->
            IF IsKind(h, v, "dict")
            THEN StoredDict(SerDictNode(h, v.v, efd, RawKeys(h, v.v), NoKeys))
            ELSE [h |-> h, out |-> "AttributeError", ret |-> None]
      [] fd.ftype = "model" ->
            IF IsKind(h, v, "model")
            THEN StoredDict(SerModelNode(h, v.v, RawKeys(h, v.v), NoKeys))
            ELSE [h |-> h, out |-> "AttributeError", ret |-> None]
      [] fd.ftype = "prim" /\ v.t = "plist" -> StoredPlain(h, PLists[v.v], "ok")
      [] OTHER ->
            [h |-> h, out |-> ScalarSerialize(fd, v).out, ret |-> ScalarSerialize(fd, v).ret]

\* Field.serialize of the field a value is written through: the serialised
\* value (a new raw list/dict for a container), or the exception raised
Serialize(h, field, v) ==
    SerializeAs(h, v, FieldDef(field.id), FieldDef(FieldDef(field.id).elem))

(***************************************************************************)
(* Mutation of nodes (object.py)                                           *)
(***************************************************************************)
\* the end of a write: the change is notified once the child is updated
Notified(n, u) ==
    IF u.out # "ok" THEN [h |-> u.h, out |-> u.out, notifies |-> 0]
    ELSE [h |-> u.h, out |-> "ok", notifies |-> cfg_notify_update(u.h, n, MaxNodes)]

\* ConfigModel.set from the type check on (object.py 371-390): ser is the
\* serialised value; uncache: the cached object of the key is deleted
ModelStore(h, n, key, v, field, ser, uncache) ==
    IF ser.out # "ok" THEN [h |-> ser.h, out |-> ser.out, notifies |-> 0]
    ELSE IF ~IsPrimitive(ser.ret)
    THEN [h |-> ser.h, out |-> "ConfigConverterError", notifies |-> 0]
    ELSE Notified(n, update_child_node(
            [ser.h EXCEPT !.raws[h.nodes[n].data].d[key] = ser.ret,
                          !.nodes[n].conv[key] = IF uncache THEN Absent ELSE @],
            n, field, v, ser.ret, TRUE, -1))

\* ConfigModel.set up to the serialisation (object.py 355-372)
ModelWrite(h, n, key, v, ro, field, uncache) ==
    IF cfg_read_only(h, n, ro) THEN [h |-> h, out |-> "ReadOnlyError", notifies |-> 0]
    ELSE IF strict_keys(h, h.nodes[n].field) /\ key \notin cfg_field_keys(h.nodes[n].cls)
    THEN [h |-> h, out |-> "ConfigKeyError", notifies |-> 0]
    ELSE ModelStore(h, n, key, v, field, Serialize(h, field, v), uncache)

\* ConfigModel.set that leaves the old cached object in place
SetKeepsCache(h, n, key, v, ro) ==
    ModelWrite(h, n, key, v, ro, cfg_get_field(h.nodes[n].cls, key), FALSE)

\* ConfigModel.set (object.py 355-390)
ModelSet(h, n, key, v, ro) ==
    ModelWrite(h, n, key, v, ro, cfg_get_field(h.nodes[n].cls, key), TRUE)

\* ConfigList.__setitem__, the end (object.py 588-591)
ListStored(n, i, u) ==
    IF u.out # "ok" THEN [h |-> u.h, out |-> u.out, notifies |-> 0]
    ELSE IF i > Len(u.h.nodes[n].cmap) THEN [h |-> u.h, out |-> "IndexError", notifies |-> 0]
    ELSE [h |-> [u.h EXCEPT !.nodes[n].cmap[i] = FALSE], out |-> "ok",
          notifies |-> cfg_notify_update(u.h, n, MaxNodes)]

\* ConfigList.__setitem__ from the assignment on (object.py 583-591)
ListStore(h, n, i, v, field, ser) ==
    IF ser.out # "ok" THEN [h |-> ser.h, out |-> ser.out, notifies |-> 0]
    ELSE IF i > Len(ser.h.raws[h.nodes[n].data].l)
    THEN [h |-> ser.h, out |-> "IndexError", notifies |-> 0]
    ELSE ListStored(n, i, update_child_node(
            [ser.h EXCEPT !.raws[h.nodes[n].data].l[i] = ser.ret],
            n, field, v, ser.ret, TRUE, i - 1))

ListWrite(h, n, i, v, field) == ListStore(h, n, i, v, field, Serialize(h, field, v))

\* ConfigList.__setitem__ (object.py 581-591); index i counts from 1
ListSetItem(h, n, i, v) == ListWrite(h, n, i, v, ElemField(h, n))

RemoveAt(seq, i) == [j \in 1..(Len(seq) - 1) |-> IF j < i THEN seq[j] ELSE seq[j + 1]]

\* list.insert: an index past the end appends
InsertAt(seq, i, x) ==
    [j \in 1..(Len(seq) + 1) |->
        IF j < i /\ j <= Len(seq) THEN seq[j]
        ELSE IF j = i \/ (i > Len(seq) + 1 /\ j = Len(seq) + 1) THEN x
        ELSE seq[j - 1]]

\* ConfigList.__delitem__ from the first del on (object.py 598-601)
ListRemove(h, n, i, rawl, lconv) ==
    IF i > Len(rawl) THEN [h |-> h, out |-> "IndexError", notifies |-> 0]
    ELSE IF i > Len(lconv)
    THEN [h |-> [h EXCEPT !.raws[h.nodes[n].data].l = RemoveAt(rawl, i)],
          out |-> "IndexError", notifies |-> 0]
    ELSE [h |-> [h EXCEPT !.raws[h.nodes[n].data].l = RemoveAt(rawl, i),
                          !.nodes[n].lconv = RemoveAt(lconv, i),
                          !.nodes[n].cmap = RemoveAt(h.nodes[n].cmap, i)],
          out |-> "ok", notifies |-> cfg_notify_update(h, n, MaxNodes)]

\* the min_len test of ConfigList.__delitem__ (object.py 594-596)
ListDelChecked(h, n, i, min_len, rawl) ==
    IF min_len # 0 /\ Len(rawl) <= min_len
    THEN [h |-> h, out |-> "IndexError", notifies |-> 0]
    ELSE ListRemove(h, n, i, rawl, h.nodes[n].lconv)

\* ConfigList.__delitem__ (object.py 593-601)
ListDelItem(h, n, i) ==
    ListDelChecked(h, n, i, FieldDef(h.nodes[n].field.id).min_len, h.raws[h.nodes[n].data].l)

\* the second notification of ConfigList.insert (object.py 608)
Inserted(n, r) ==
    IF r.out # "ok" THEN r
    ELSE [r EXCEPT !.notifies = @ + cfg_notify_update(r.h, n, MaxNodes)]

\* ConfigList.insert (object.py 603-608); append(v) is insert(len(self), v)
ListInsert(h, n, i, v) ==
    Inserted(n, ListSetItem([h EXCEPT !.raws[h.nodes[n].data].l = InsertAt(@, i, None),
                                      !.nodes[n].lconv = InsertAt(@, i, None),
                                      !.nodes[n].cmap = InsertAt(@, i, FALSE)],
                            n, i, v))

\* ConfigDict.__setitem__, the end (object.py 703-708)
DictStored(n, key, u) ==
    IF u.out # "ok" THEN [h |-> u.h, out |-> u.out, notifies |-> 0]
    ELSE [h |-> [u.h EXCEPT !.nodes[n].conv[key] = Absent], out |-> "ok",
          notifies |-> cfg_notify_update(u.h, n, MaxNodes)]

\* ConfigDict.__setitem__ from the assignment on (object.py 697-708)
DictStore(h, n, key, v, field, ser) ==
    IF ser.out # "ok" THEN [h |-> ser.h, out |-> ser.out, notifies |-> 0]
    ELSE DictStored(n, key, update_child_node(
            [ser.h EXCEPT !.raws[h.nodes[n].data].d[key] = ser.ret],
            n, field, v, ser.ret, TRUE, -1))

DictWrite(h, n, key, v, field) == DictStore(h, n, key, v, field, Serialize(h, field, v))

\* ConfigDict.__setitem__ (object.py 693-708)
DictSetItem(h, n, key, v) == DictWrite(h, n, key, v, ElemField(h, n))

\* ConfigDict.__delitem__ (object.py 710-716)
DictDelItem(h, n, key) ==
    LET node == h.nodes[n]
    IN  IF h.raws[node.data].d[key] = Absent THEN [h |-> h, out |-> "KeyError", notifies |-> 0]
        ELSE [h |-> [h EXCEPT !.raws[node.data].d[key] = Absent,
                              !.nodes[n].conv[key] = Absent],
              out |-> "ok", notifies |-> cfg_notify_update(h, n, MaxNodes)]

\* clear_cache (object.py 290-305, 536-548, 661-667)
ClearAs(h, n, fd) ==
    IF h.nodes[n].kind \in {"root", "model"}
    THEN ModelCleared([h EXCEPT !.nodes[n].conv = NoKeys], n, fd)
    ELSE IF h.nodes[n].kind = "list"
    THEN ListCleared(h, n, h.raws[h.nodes[n].data].l, fd)
    ELSE IF fd.lazy
    THEN [h |-> [h EXCEPT !.nodes[n].conv = NoKeys], out |-> "ok"]
    ELSE DictCleared(h, n, h.raws[h.nodes[n].data].d, fd)

clear_cache(h, n) == ClearAs(h, n, FieldDef(h.nodes[n].field.id))

(***************************************************************************)
(* Calls on the nodes of one ConfigRoot                                    *)
(***************************************************************************)
\* the slot of a list index, so that keys and indices name slots alike
IdxKeys == <<"i1", "i2", "i3", "i4", "i5", "i6">>
SlotKeys == Keys \cup {IdxKeys[i] : i \in 1..Len(IdxKeys)}
IdxOf(slot) == CHOOSE i \in 1..Len(IdxKeys) : IdxKeys[i] = slot

\* per slot: seen = the object the latest read returned, if no write to the
\* slot, clear_cache or cfg_set_data came after it; old, val = the cache entry
\* replaced and the object written by the latest write, if no read came after
NoG == [seen |-> Absent, old |-> Absent, val |-> Absent]
NoHist == [sl \in SlotKeys |-> NoG]

\* rows for the nodes a call created
Grown(hs, h) == [i \in 1..Len(h.nodes) |-> IF i <= Len(hs) THEN hs[i] ELSE NoHist]

ForgetSeen(row) == [sl \in SlotKeys |-> [row[sl] EXCEPT !.seen = Absent]]

\* slots i.. of a list have moved
ForgetFrom(row, i) ==
    [sl \in SlotKeys |-> IF sl \notin Keys /\ IdxOf(sl) >= i THEN NoG ELSE row[sl]]

\* cfg_set_data ran on the node passed as value
ForgetValue(hs, v, changed) ==
    IF v.t = "node" /\ changed THEN [hs EXCEPT ![v.v] = ForgetSeen(@)] ELSE hs

HistRead(hs, h, n, slot, r) ==
    IF r.out = "ok" THEN [Grown(hs, r.h) EXCEPT ![n][slot] = [seen |-> r.ret, old |-> Absent, val |-> Absent]]
    ELSE Grown(hs, r.h)

HistWrite(hs, h, n, slot, v, oldEntry, r) ==
    LET g == Grown(hs, r.h)
        g1 == ForgetValue(g, v, r.h # h)
    IN  IF r.out = "ok" THEN [g1 EXCEPT ![n][slot] = [seen |-> Absent, old |-> oldEntry, val |-> v]]
        ELSE IF r.h # h THEN [g1 EXCEPT ![n][slot].seen = Absent]
        ELSE g1

Fits(h) == Len(h.nodes) <= MaxNodes /\ Len(h.raws) <= MaxRaws

SetHeap(h) ==
    /\ calls < MaxCalls
    /\ calls' = calls + 1
    /\ nodes' = h.nodes
    /\ raws' = h.raws
    /\ nonStrict' = h.ns
    /\ fieldAttrs' = h.fa
    /\ client' = client

RECURSIVE NotifyTimes(_, _)
NotifyTimes(c, k) == IF k = 0 THEN c ELSE NotifyTimes(CfgNotify(c), k - 1)

\* the record kept of the latest node call
TLast(op, n, slot, v, r, ret, notifies) ==
    [op |-> op, node |-> n, key |-> slot, value |-> v, out |-> r.out, ret |-> ret,
     notifies |-> notifies,
     attached |-> nodes[n].root # 0,
     strict |-> strict_keys(Heap, nodes[n].field),
     ro |-> read_only,
     rawChanged |-> r.h.raws # raws,
     nodesBefore |-> Len(nodes),
     prev |-> hist[n][slot]]

NoNodeCall ==
    [op |-> "none", node |-> 1, key |-> "n", value |-> None, out |-> "ok", ret |-> None,
     notifies |-> 0, attached |-> TRUE, strict |-> TRUE, ro |-> FALSE,
     rawChanged |-> FALSE, nodesBefore |-> 1, prev |-> NoG]

IsModel(n) == nodes[n].kind \in {"root", "model"}
IsList(n) == nodes[n].kind = "list"
IsDict(n) == nodes[n].kind = "dict"
NodeIds == 1..Len(nodes)

\* the cache entry of a slot, Absent when there is none
CacheEntry(h, n, slot) ==
    IF h.nodes[n].kind = "list"
    THEN IF IdxOf(slot) <= Len(h.nodes[n].cmap) /\ h.nodes[n].cmap[IdxOf(slot)]
         THEN h.nodes[n].lconv[IdxOf(slot)] ELSE Absent
    ELSE h.nodes[n].conv[slot]

\* node m is n or one of its ancestors
RECURSIVE IsAncestor(_, _, _)
IsAncestor(m, n, fuel) ==
    \/ m = n
    \/ fuel > 0 /\ nodes[n].parent # 0 /\ IsAncestor(m, nodes[n].parent, fuel - 1)

\* the values a caller passes to a write through a field of type ftype:
\* integers to the scalar fields, plain lists to a list field, a value of
\* the wrong type, and a node of the field's own kind that is not the target
\* or one of its ancestors
Values(n, ftype) ==
    (IF ftype \in {"int", "prim"} THEN {IntV(i) : i \in 0..MaxInt} \cup {Obj} ELSE {IntV(0)})
    \cup (IF ftype = "list" THEN {PListV(i) : i \in 1..Len(PLists)} ELSE {})
    \cup {NodeV(m) : m \in {x \in NodeIds : /\ nodes[x].kind = ftype
                                            /\ ~IsAncestor(x, n, MaxNodes)}}

DKeys == {"x", "u"}

ModelGetCall(n, key) ==
    /\ opened /\ IsModel(n)
    /\ \E r \in {ModelGet(Heap, n, key)} :
           /\ Fits(r.h)
           /\ SetHeap(r.h)
           /\ hist' = HistRead(hist, Heap, n, key, r)
           /\ last' = TLast("get", n, key, None, r, r.ret, 0)
    /\ UNCHANGED cvars

ModelSetCall(n, key, v) ==
    /\ opened /\ IsModel(n)
    /\ \E r \in {ModelSet(Heap, n, key, v, read_only)} :
           /\ Fits(r.h)
           /\ SetHeap(r.h)
           /\ hist' = HistWrite(hist, Heap, n, key, v, CacheEntry(Heap, n, key), r)
           /\ last' = TLast("set", n, key, v, r, None, r.notifies)
           /\ SetCfg(NotifyTimes(CfgState, r.notifies))
    /\ UNCHANGED <<opened, read_only, clast>>

ListGetCall(n, i) ==
    /\ opened /\ IsList(n)
    /\ \E r \in {ListGet(Heap, n, i)} :
           /\ Fits(r.h)
           /\ SetHeap(r.h)
           /\ hist' = HistRead(hist, Heap, n, IdxKeys[i], r)
           /\ last' = TLast("get", n, IdxKeys[i], None, r, r.ret, 0)
    /\ UNCHANGED cvars

ListSetCall(n, i, v) ==
    /\ opened /\ IsList(n)
    /\ \E r \in {ListSetItem(Heap, n, i, v)} :
           /\ Fits(r.h)
           /\ SetHeap(r.h)
           /\ hist' = HistWrite(hist, Heap, n, IdxKeys[i], v, CacheEntry(Heap, n, IdxKeys[i]), r)
           /\ last' = TLast("set", n, IdxKeys[i], v, r, None, r.notifies)
           /\ SetCfg(NotifyTimes(CfgState, r.notifies))
    /\ UNCHANGED <<opened, read_only, clast>>

ListInsertCall(n, i, v) ==
    /\ opened /\ IsList(n)
    /\ Len(raws[nodes[n].data].l) < MaxLen
    /\ \E r \in {ListInsert(Heap, n, i, v)} :
           /\ Fits(r.h)
           /\ SetHeap(r.h)
           /\ hist' = HistWrite([hist EXCEPT ![n] = ForgetFrom(@, i)], Heap, n, IdxKeys[i], v, Absent, r)
           /\ last' = TLast("insert", n, IdxKeys[i], v, r, None, r.notifies)
           /\ SetCfg(NotifyTimes(CfgState, r.notifies))
    /\ UNCHANGED <<opened, read_only, clast>>

ListDelCall(n, i) ==
    /\ opened /\ IsList(n)
    /\ \E r \in {ListDelItem(Heap, n, i)} :
           /\ SetHeap(r.h)
           /\ hist' = IF r.h # Heap THEN [hist EXCEPT ![n] = ForgetFrom(@, i)] ELSE hist
           /\ last' = TLast("del", n, IdxKeys[i], None, r, None, r.notifies)
           /\ SetCfg(NotifyTimes(CfgState, r.notifies))
    /\ UNCHANGED <<opened, read_only, clast>>

DictGetCall(n, key) ==
    /\ opened /\ IsDict(n)
    /\ \E r \in {DictGet(Heap, n, key)} :
           /\ Fits(r.h)
           /\ SetHeap(r.h)
           /\ hist' = HistRead(hist, Heap, n, key, r)
           /\ last' = TLast("get", n, key, None, r, r.ret, 0)
    /\ UNCHANGED cvars

DictSetCall(n, key, v) ==
    /\ opened /\ IsDict(n)
    /\ \E r \in {DictSetItem(Heap, n, key, v)} :
           /\ Fits(r.h)
           /\ SetHeap(r.h)
           /\ hist' = HistWrite(hist, Heap, n, key, v, CacheEntry(Heap, n, key), r)
           /\ last' = TLast("set", n, key, v, r, None, r.notifies)
           /\ SetCfg(NotifyTimes(CfgState, r.notifies))
    /\ UNCHANGED <<opened, read_only, clast>>

DictDelCall(n, key) ==
    /\ opened /\ IsDict(n)
    /\ \E r \in {DictDelItem(Heap, n, key)} :
           /\ SetHeap(r.h)
           /\ hist' = IF r.out = "ok" THEN [hist EXCEPT ![n][key] = NoG] ELSE hist
           /\ last' = TLast("del", n, key, None, r, None, r.notifies)
           /\ SetCfg(NotifyTimes(CfgState, r.notifies))
    /\ UNCHANGED <<opened, read_only, clast>>

ClearCacheCall(n) ==
    /\ opened /\ n \in NodeIds
    /\ \E r \in {clear_cache(Heap, n)} :
           /\ Fits(r.h)
           /\ SetHeap(r.h)
           /\ hist' = [Grown(hist, r.h) EXCEPT ![n] = ForgetSeen(@)]
           /\ last' = TLast("clear_cache", n, "n", None, r, None, 0)
    /\ UNCHANGED cvars

\* node.cfg_write(); the root's is KaztronConfig.write() on its config
CfgWriteCall(n, wfail) ==
    /\ opened /\ n \in NodeIds
    /\ \E r \in {cfg_write(Heap, n)} :
         \E w \in {IF r.writes = 1 THEN CfgWrite(CfgState, read_only, wfail)
                    ELSE [c |-> CfgState, out |-> r.out, writes |-> 0]} :
           /\ Fits(r.h)
           /\ SetHeap(r.h)
           /\ SetCfg(w.c)
           /\ hist' = Grown(hist, r.h)
           /\ last' = [op |-> "cfg_write", node |-> n, out |-> w.out, writes |-> r.writes,
                       kind |-> nodes[n].kind, attached |-> nodes[n].root # 0]
    /\ UNCHANGED <<opened, read_only, clast>>

RegisterModelCall(lazy) ==
    /\ opened
    /\ \E r \in {cfg_register_model(Heap, 1, lazy)} :
           /\ Fits(r.h)
           /\ SetHeap(r.h)
           /\ hist' = IF lazy THEN hist ELSE HistRead(hist, Heap, 1, "dct", r)
           /\ last' = TLast("register", 1, "dct", None, r, None, 0)
    /\ UNCHANGED cvars

\* the heap with a new Sub object that no node refers to
\* (ConfigModel.__init__, object.py 248-252)
WithNewModel(h) ==
    AllocNode(AllocRaw(h, RawDict(NoKeys)),
              MkNode("model", "Sub", FRef("Unassigned", Len(h.nodes) + 1, "Unassigned"),
                     0, 0, Len(h.raws) + 1))

\* Sub() and Sub(key=v): ConfigModel.__init__ (object.py 248-255); an
\* exception of set leaves no object behind
NewModel(key, v) ==
    /\ opened
    /\ \E r \in {IF v = Absent THEN [h |-> WithNewModel(Heap), out |-> "ok", notifies |-> 0]
                  ELSE ModelSet(WithNewModel(Heap), Len(nodes) + 1, key, v, read_only)} :
           /\ r.out = "ok"
           /\ Fits(r.h)
           /\ SetHeap(r.h)
           /\ hist' = Grown(hist, r.h)
           /\ last' = [NoNodeCall EXCEPT !.op = "new", !.node = Len(nodes) + 1,
                                          !.key = key, !.value = v,
                                          !.attached = FALSE, !.ro = read_only,
                                          !.nodesBefore = Len(nodes)]
    /\ UNCHANGED cvars

\* model.__config_field__.strict_keys = b (test_models.py 254, 302, 308):
\* an attribute assignment, no call on the node
SetStrictKeys(n, b) ==
    /\ opened /\ IsModel(n)
    /\ LET f == <<nodes[n].field.id, nodes[n].field.inst>>
       IN  nonStrict' = IF b THEN nonStrict \ {f} ELSE nonStrict \cup {f}
    /\ UNCHANGED <<nodes, raws, fieldAttrs, hist, calls, last, client>>
    /\ UNCHANGED cvars

\* the raw tree bound to the root (cfg_set_data on a new ConfigRoot):
\*   {'n': 1, 'lst': [0, 1] or [1], 'dct': {'x': 1}, 'u': 1}
InitialRaws(l) ==
    << RawDict([k \in Keys |-> CASE k = "n" -> IntV(1)
                                 [] k = "lst" -> RawV(2)
                                 [] k = "dct" -> RawV(3)
                                 [] k = "u" -> IntV(1)
                                 [] OTHER -> Absent]),
       RawList(l),
       RawDict([k \in Keys |-> IF k = "x" THEN IntV(1) ELSE Absent]) >>

\* ConfigRoot.__init__ (object.py 446-451)
RootNode == MkNode("root", "Root", FRef("root", 1, "root"), 0, 1, 1)

Init ==
    /\ opened = TRUE
    /\ read_only \in BOOLEAN
    /\ is_dirty = FALSE
    /\ data = EmptyData
    /\ defaults = [sl \in Slots |-> 0]
    /\ file = [exists |-> TRUE, content |-> EmptyData]
    /\ clast = NoCall
    /\ nodes = <<RootNode>>
    /\ raws \in {InitialRaws(<<IntV(0), IntV(1)>>), InitialRaws(<<IntV(1)>>)}
    /\ nonStrict = {}
    /\ fieldAttrs = NoFieldAttrs
    /\ hist = <<NoHist>>
    /\ calls = 0
    /\ last = NoNodeCall
    /\ client = NoClient

\* the keys of the calls on the root: a declared integer, a declared list,
\* a declared model, an undeclared key and a reserved name
MKeys == {"n", "lst", "sub", "u", "_r"}

\* calls on the root model
Next ==
    \/ \E n \in NodeIds, k \in MKeys : ModelGetCall(n, k)
    \/ \E n \in {m \in NodeIds : IsModel(m)}, k \in MKeys :
          \E v \in Values(n, FieldDef(cfg_get_field(nodes[n].cls, k).id).ftype) :
             ModelSetCall(n, k, v)
    \/ \E n \in NodeIds : ClearCacheCall(n)
    \/ \E b \in BOOLEAN : SetStrictKeys(1, b)

Spec == Init /\ [][Next]_vars

\* calls on the list and the dict of the root
NextCollections ==
    \/ \E k \in {"lst", "dct"} : ModelGetCall(1, k)
    \/ \E n \in NodeIds, i \in 1..(MaxLen + 1) : ListGetCall(n, i)
    \/ \E n \in NodeIds, i \in 1..(MaxLen + 1) : \E v \in Values(n, "int") : ListSetCall(n, i, v)
    \/ \E n \in NodeIds, i \in 1..(MaxLen + 1) : \E v \in Values(n, "int") :
          IsList(n) /\ i <= Len(raws[nodes[n].data].l) + 1 /\ ListInsertCall(n, i, v)
    \/ \E n \in NodeIds, i \in 1..(MaxLen + 1) : ListDelCall(n, i)
    \/ \E n \in NodeIds, k \in DKeys : DictGetCall(n, k)
    \/ \E n \in NodeIds, k \in DKeys : \E v \in Values(n, "int") : DictSetCall(n, k, v)
    \/ \E n \in NodeIds, k \in DKeys : DictDelCall(n, k)

SpecCollections == Init /\ [][NextCollections]_vars

\* the keys of the calls on a Sub object: a field with a default, a required
\* field with a default and a required field without one
SubKeys == {"x", "q", "m"}
IsSub(n) == nodes[n].kind = "model"

\* calls on Sub objects that the program builds, and on the root's key for
\* them (test_models.py 416-433)
NextModels ==
    \/ \E v \in {Absent, IntV(1)} : NewModel("x", v)
    \/ NewModel("lst", PListV(2))
    \/ \E n \in NodeIds, k \in SubKeys \cup {"lst"} : IsSub(n) /\ ModelGetCall(n, k)
    \/ \E n \in NodeIds, k \in {"x", "q"} : \E v \in Values(n, "int") :
          IsSub(n) /\ ModelSetCall(n, k, v)
    \/ \E k \in {"sub", "esub"} : \E v \in Values(1, "model") : ModelSetCall(1, k, v)
    \/ ModelGetCall(1, "sub")

\* calls on the root's key 'dct' and on the objects read from it, with the
\* key registered to Sub at some point (test_models.py 416-433,
\* logging.py 27-28)
NextRegister ==
    \/ \E lazy \in BOOLEAN : RegisterModelCall(lazy)
    \/ \E k \in {"dct", "n"} : ModelGetCall(1, k)
    \/ \E v \in Values(1, FieldDef(cfg_get_field(nodes[1].cls, "dct").id).ftype) :
          ModelSetCall(1, "dct", v)
    \/ NewModel("x", IntV(1))
    \/ \E n \in NodeIds, k \in DKeys :
          FieldDef(nodes[n].field.id).ftype = "dict" /\ DictGetCall(n, k)
    \/ \E n \in NodeIds : IsSub(n) /\ ModelGetCall(n, "x")

SpecRegister == Init /\ [][NextRegister]_vars

\* a raw tree with a list of lists under 'll': {'ll': [[1], [0, 1]]}
NestedRaws ==
    << RawDict([k \in Keys |-> IF k = "ll" THEN RawV(2) ELSE Absent]),
       RawList(<<RawV(3), RawV(4)>>),
       RawList(<<IntV(1)>>),
       RawList(<<IntV(0), IntV(1)>>) >>

\* the root bound to that tree (cfg_set_data on a new ConfigRoot) and its
\* list read once: l = root.get('ll')
NestedRead == ModelGet([nodes |-> <<RootNode>>, raws |-> NestedRaws, ns |-> {},
                       fa |-> NoFieldAttrs], 1, "ll")

\* a root with the heap h and the reads hs behind it
TreeStart(h, hs) ==
    /\ opened = TRUE
    /\ read_only \in BOOLEAN
    /\ is_dirty = FALSE
    /\ data = EmptyData
    /\ defaults = [sl \in Slots |-> 0]
    /\ file = [exists |-> TRUE, content |-> EmptyData]
    /\ clast = NoCall
    /\ nodes = h.nodes
    /\ raws = h.raws
    /\ nonStrict = {}
    /\ fieldAttrs = h.fa
    /\ hist = hs
    /\ calls = 0
    /\ last = NoNodeCall

TreeInit(h, hs) == TreeStart(h, hs) /\ client = NoClient

InitNested == TreeInit(NestedRead.h, <<[NoHist EXCEPT !["ll"].seen = NestedRead.ret], NoHist>>)

\* reads of the lists below 'll', and the inserts and deletes that shift
\* their elements (test_models.py 528-536)
NextNested ==
    \/ ModelGetCall(1, "ll")
    \/ \E n \in NodeIds, i \in 1..MaxLen : ListGetCall(n, i)
    \/ \E i \in 1..MaxLen : \E v \in {PListV(1), PListV(2)} :
          i <= Len(raws[nodes[2].data].l) + 1 /\ ListInsertCall(2, i, v)
    \/ \E n \in NodeIds, i \in 1..MaxLen : ListDelCall(n, i)

SpecNested == InitNested /\ [][NextNested]_vars

\* the first element of that list read as well: e = l[0]
NestedElement == ListGet(NestedRead.h, 2, 1)

InitAttrs ==
    TreeInit(NestedElement.h,
             <<[NoHist EXCEPT !["ll"].seen = NestedRead.ret],
               [NoHist EXCEPT !["i1"].seen = NestedElement.ret], NoHist>>)

\* the keyword arguments of the calls of cfg_set_runtime_attributes
AttrKwargs ==
    {[a |-> 1, b |-> 0], [a |-> 2, b |-> 0], [a |-> 0, b |-> 1], [a |-> 2, b |-> 1]}

AttrsV(tab) == [t |-> "attrs", v |-> tab]

\* node.cfg_set_runtime_attributes(F, **kw)
SetRuntimeAttrsCall(n, F, kw) ==
    /\ opened
    /\ SetHeap(cfg_set_runtime_attributes(Heap, n, F, kw))
    /\ last' = [NoNodeCall EXCEPT !.op = "set_attrs", !.node = n, !.key = F,
                                   !.value = AttrsV(kw), !.ro = read_only,
                                   !.nodesBefore = Len(nodes)]
    /\ UNCHANGED <<hist, cvars>>

\* node.cfg_get_runtime_attributes(F)
GetRuntimeAttrsCall(n, F) ==
    /\ opened
    /\ SetHeap(Heap)
    /\ last' = [NoNodeCall EXCEPT !.op = "get_attrs", !.node = n, !.key = F,
                                   !.ret = AttrsV(cfg_get_runtime_attributes(Heap, n, F, MaxNodes)),
                                   !.ro = read_only, !.nodesBefore = Len(nodes)]
    /\ UNCHANGED <<hist, cvars>>

\* a root of class B bound to the raw tree
\*   {'x': 1, 'lst': [1, 2], 'dct': {'x': 1}, 'el': [1], 'ed': {'x': 2}}
PotatoRaws ==
    << RawDict([k \in Keys |-> CASE k = "x" -> IntV(1)
                                 [] k = "lst" -> RawV(2)
                                 [] k = "dct" -> RawV(3)
                                 [] k = "el" -> RawV(4)
                                 [] k = "ed" -> RawV(5)
                                 [] OTHER -> Absent]),
       RawList(<<IntV(1), IntV(2)>>),
       RawDict([k \in Keys |-> IF k = "x" THEN IntV(1) ELSE Absent]),
       RawList(<<IntV(1)>>),
       RawDict([k \in Keys |-> IF k = "x" THEN IntV(2) ELSE Absent]) >>

InitPotato ==
    TreeInit([nodes |-> <<MkNode("root", "B", FRef("root", 1, "root"), 0, 1, 1)>>,
              raws |-> PotatoRaws, ns |-> {}, fa |-> NoFieldAttrs],
             <<NoHist>>)

\* testattr set for PotatoField on the root or on a container, and the
\* Potatoes read (test_models.py 393-401, 538-544, 638-644)
NextPotato ==
    \/ \E n \in NodeIds, kw \in AttrKwargs : SetRuntimeAttrsCall(n, "PotatoField", kw)
    \/ \E k \in cfg_field_keys("B") : ModelGetCall(1, k)
    \/ \E n \in NodeIds, i \in 1..2 : ListGetCall(n, i)
    \/ \E n \in NodeIds : DictGetCall(n, "x")
    \/ \E n \in NodeIds : ClearCacheCall(n)

SpecPotato == InitPotato /\ [][NextPotato]_vars

\* runtime attributes set and looked up on the root, its list and an element
\* of the list (test_models.py 393-401)
NextAttrs ==
    \/ \E n \in NodeIds, F \in ScalarTypes, kw \in AttrKwargs : SetRuntimeAttrsCall(n, F, kw)
    \/ \E n \in NodeIds, F \in ScalarTypes : GetRuntimeAttrsCall(n, F)

SpecAttrs == InitAttrs /\ [][NextAttrs]_vars

\* a value the element fields accept and one they refuse
NotifyValues == {IntV(1), Obj}

\* mutations of the root, of its list and dict and of a Sub object, before
\* and after it is attached (test_models.py 318-321)
NextNotify ==
    \/ \E k \in {"lst", "dct"} : ModelGetCall(1, k)
    \/ \E v \in NotifyValues : ModelSetCall(1, "n", v)
    \/ \E n \in NodeIds, i \in 1..2 : \E v \in NotifyValues : ListSetCall(n, i, v)
    \/ \E n \in NodeIds : IsList(n) /\ ListInsertCall(n, 1, IntV(1))
    \/ \E n \in NodeIds : ListDelCall(n, 1)
    \/ \E n \in NodeIds : \E v \in NotifyValues : DictSetCall(n, "x", v)
    \/ \E n \in NodeIds, k \in DKeys : DictDelCall(n, k)
    \/ NewModel("x", Absent)
    \/ \E n \in NodeIds : \E v \in NotifyValues : IsSub(n) /\ ModelSetCall(n, "x", v)
    \/ \E k \in {"sub", "esub"} : \E v \in Values(1, "model") \ {IntV(0)} :
          ModelSetCall(1, k, v)

InitModels == Init /\ raws = InitialRaws(<<IntV(1)>>)

SpecModels == InitModels /\ [][NextModels]_vars

SpecNotify == InitModels /\ [][NextNotify]_vars

\* a key of the root read, the cache of the root cleared, and the key read
\* again: a = root.get(key); root.clear_cache(); b = root.get(key). Both
\* nodes are bound to the raw list, or dict, under the key (object.py 71-83,
\* 290-293)
SharedRead(key) ==
    ModelGet(clear_cache(ModelGet([nodes |-> <<RootNode>>,
                                   raws |-> InitialRaws(<<IntV(0), IntV(1)>>),
                                   ns |-> {}, fa |-> NoFieldAttrs], 1, key).h, 1).h,
             1, key)

InitShared ==
    \E key \in {"lst", "dct"} :
        TreeInit(SharedRead(key).h,
                 <<[NoHist EXCEPT ![key].seen = SharedRead(key).ret], NoHist, NoHist>>)

\* reads and writes through the two nodes
NextShared ==
    \/ \E n \in NodeIds, i \in 1..2 : ListGetCall(n, i)
    \/ \E n \in NodeIds, i \in 1..2 : \E v \in Values(n, "int") : ListSetCall(n, i, v)
    \/ \E n \in NodeIds, k \in DKeys : DictGetCall(n, k)
    \/ \E n \in NodeIds, k \in DKeys : \E v \in Values(n, "int") : DictSetCall(n, k, v)

SpecShared == InitShared /\ [][NextShared]_vars

\* cfg_write() on the root, on the nodes read from it and on objects the
\* program builds (test_models.py 449-452)
NextWrite ==
    \/ \E k \in {"lst", "dct", "sub"} : ModelGetCall(1, k)
    \/ NewModel("x", Absent)
    \/ \E k \in {"sub", "esub"} : \E v \in Values(1, "model") \ {IntV(0)} :
          ModelSetCall(1, k, v)
    \/ \E n \in NodeIds, wfail \in BOOLEAN : CfgWriteCall(n, wfail)

SpecWrite == InitModels /\ [][NextWrite]_vars

(***************************************************************************)
(* Field.convert and Field.serialize as functions (fields/discord.py,      *)
(* fields/fields.py)                                                       *)
(***************************************************************************)
\* the string number n, a bool, a Discord model (channel, role or member)
\* with id i and name number i, DiscordDummy(id=i) and DiscordDummy(name=n)
StrV(n) == [t |-> "str", v |-> n]
BoolV(b) == [t |-> "bool", v |-> IF b THEN 1 ELSE 0]
Entity(i) == [t |-> "entity", v |-> i]
DummyId(i) == [t |-> "dummy_id", v |-> i]
DummyName(n) == [t |-> "dummy_name", v |-> n]

\* the clients a field is converted with
Clients ==
    {NoClient} \cup
    {[inj |-> TRUE, ready |-> r, guild |-> g, has |-> hs] :
        r \in BOOLEAN, g \in BOOLEAN, hs \in SUBSET (0..MaxInt)}

Raised(e) == [out |-> e, ret |-> None]
Returned(v) == [out |-> "ok", ret |-> v]

\* DiscordModelField._convert_dummy (discord.py 28-36)
convert_dummy(rv) ==
    IF rv.t = "int" THEN Returned(DummyId(rv.v))
    ELSE IF rv.t = "str" THEN Returned(DummyName(rv.v))
    ELSE Raised("TypeError")

\* GuildChannelField.convert that raises for a missing channel whenever
\* must_exist is set
ChannelRaisesUnready(must_exist, c, rv) ==
    IF ~c.inj THEN Raised("AttributeError")
    ELSE IF rv.v \in c.has THEN Returned(Entity(rv.v))
    ELSE IF must_exist THEN Raised("ValueError")
    ELSE convert_dummy(rv)

\* GuildChannelField.convert (discord.py 56-70); self.client.get_channel
\* and get_all_channels on None raise AttributeError
GuildChannelConvert(must_exist, c, rv) ==
    IF ~c.inj THEN Raised("AttributeError")
    ELSE IF rv.v \in c.has THEN Returned(Entity(rv.v))
    ELSE IF must_exist /\ c.ready THEN Raised("ValueError")
    ELSE convert_dummy(rv)

\* RoleField.convert (discord.py 137-154); self.client.guild on None raises
\* AttributeError
RoleConvert(must_exist, c, rv) ==
    IF ~c.inj THEN Raised("AttributeError")
    ELSE IF c.guild /\ rv.v \in c.has THEN Returned(Entity(rv.v))
    ELSE IF must_exist /\ c.guild THEN Raised("ValueError")
    ELSE convert_dummy(rv)

\* MemberField.convert (discord.py 167-180): guild = self.client.guild is
\* outside the try, the lookups on a guild that is None are inside it;
\* get_member / get_member_named return the member or None
MemberConvert(must_exist, c, rv) ==
    IF ~c.inj THEN Raised("AttributeError")
    ELSE IF c.guild /\ rv.v \in c.has THEN Returned(Entity(rv.v))
    ELSE IF must_exist /\ c.guild THEN Raised("ValueError")
    ELSE convert_dummy(rv)

RefKinds == {"GuildChannelField", "RoleField", "MemberField"}

RefConvert(kind, must_exist, c, rv) ==
    CASE kind = "GuildChannelField" -> GuildChannelConvert(must_exist, c, rv)
      [] kind = "RoleField" -> RoleConvert(must_exist, c, rv)
      [] kind = "MemberField" -> MemberConvert(must_exist, c, rv)

\* the raw ids and names of a config file
RefValues == {IntV(i) : i \in 0..MaxInt} \cup {StrV(i) : i \in 0..MaxInt}

\* a behaviour applies one conversion; the nodes are left alone
Applied ==
    /\ calls = 0
    /\ calls' = 1
    /\ UNCHANGED <<cvars, nodes, raws, nonStrict, fieldAttrs, hist, client>>

\* f = kind(must_exist=must_exist); f.client = c; f.convert(rv)
\* (test_discord.py 48-80)
RefConvertCall(kind, must_exist, c, rv) ==
    /\ Applied
    /\ last' = [op |-> "ref_convert", kind |-> kind, must_exist |-> must_exist,
                client |-> c, value |-> rv,
                out |-> RefConvert(kind, must_exist, c, rv).out,
                ret |-> RefConvert(kind, must_exist, c, rv).ret]

\* IntegerField(min=lo, max=hi) and the other fields below: a bound that is
\* None is NoBound
Ranged(ftype, lo, hi) == FD(ftype, "-", FALSE, None, lo, hi, 0, NoBound, "-", "-")
Sized(ftype, lo, hi, elem) == FD(ftype, "-", FALSE, None, NoBound, NoBound, lo, hi, elem, "-")

\* ConstrainedIntegerField.convert that leaves a value below min as it is
ClampIgnoresMin(fd, v) ==
    IF v.t # "int" THEN Raised("TypeError")
    ELSE IF fd.max # NoBound /\ v.v > fd.max THEN Returned(IntV(fd.max))
    ELSE Returned(v)

\* ConstrainedIntegerField.convert and serialize (fields.py 195-221):
\* max(self.min, v) when min is given, then min(self.max, .) when max is
ConstrainedConvert(fd, v) ==
    IF v.t # "int" THEN Raised("TypeError")
    ELSE Returned(IntV(
            IF fd.max # NoBound /\ fd.max < (IF fd.min # NoBound /\ fd.min > v.v THEN fd.min ELSE v.v)
            THEN fd.max
            ELSE IF fd.min # NoBound /\ fd.min > v.v THEN fd.min ELSE v.v))

IntKinds == {"int", "cint"}

\* convert or serialize of IntegerField (ftype "int") and
\* ConstrainedIntegerField ("cint"); serialize has the code of convert
IntegerApply(fd, v) ==
    IF fd.ftype = "cint" THEN ConstrainedConvert(fd, v) ELSE ScalarConvert(fd, v)

\* StringField.convert and serialize (fields.py 127-155) without a validation
\* pattern; the string number n has n characters
StringConvert(fd, v) ==
    IF v.t # "str" THEN Raised("TypeError")
    ELSE IF ~(fd.min_len <= v.v /\ (fd.max_len = NoBound \/ v.v <= fd.max_len))
    THEN Raised("ValueError")
    ELSE Returned(v)

\* BooleanField.convert that takes every value for true
BooleanAlwaysTrue(v) ==
    IF v.t = "str" THEN Raised("ValueError") ELSE Returned(BoolV(TRUE))

\* BooleanField.convert and serialize (fields.py 305-320); no string of the
\* model is one of the words for a boolean
BooleanConvert(v) ==
    IF v.t = "bool" THEN Returned(v)
    ELSE IF v.t = "str" THEN Raised("ValueError")
    ELSE Returned(BoolV(v.v # 0))

\* Field.convert of the scalar fields (fields.py 100-101, 127-136, 167-172,
\* 195-207, 307-317)
FieldConvert(fd, v) ==
    CASE fd.ftype = "prim" -> Returned(v)
      [] fd.ftype = "str" -> StringConvert(fd, v)
      [] fd.ftype = "bool" -> BooleanConvert(v)
      [] OTHER -> IntegerApply(fd, v)

\* Field.serialize of the scalar fields (fields.py 103-106, 138-149,
\* 174-179, 209-221, 319-320); an int, a str and a bool are config primitives
FieldSerialize(fd, v) ==
    CASE fd.ftype = "prim" ->
            IF v.t \in {"int", "str", "bool"} THEN Returned(v) ELSE Raised("TypeError")
      [] fd.ftype = "str" -> StringConvert(fd, v)
      [] fd.ftype = "bool" -> BooleanConvert(v)
      [] OTHER -> IntegerApply(fd, v)

\* f.convert(f.serialize(v))
RoundTrip(fd, v) ==
    IF FieldSerialize(fd, v).out # "ok" THEN FieldSerialize(fd, v)
    ELSE FieldConvert(fd, FieldSerialize(fd, v).ret)

\* [self.type.convert(f.type.serialize(item)) for item in l] of ListField
\* (fields.py 407-413) and the same over the values of a dict of DictField
\* (426-430): the exception of the first item that raises one, or the items
ItemsOut(efd, items) ==
    IF \E i \in DOMAIN items : items[i] # Absent /\ RoundTrip(efd, items[i]).out # "ok"
    THEN RoundTrip(efd, items[CHOOSE i \in DOMAIN items :
                                 items[i] # Absent /\ RoundTrip(efd, items[i]).out # "ok"]).out
    ELSE "ok"

ItemsTrip(efd, items) ==
    [i \in DOMAIN items |-> IF items[i] = Absent THEN Absent ELSE RoundTrip(efd, items[i]).ret]

\* ListField._validate_length in serialize and in convert (fields.py 407-413)
ListTripOut(fd, efd, items) ==
    IF ~validate_length(fd, Len(items)) THEN "ValueError" ELSE ItemsOut(efd, items)

\* the scalar fields, the values and the containers of the round trips
TripFields ==
    {Ranged("prim", NoBound, NoBound), Ranged("bool", NoBound, NoBound),
     Ranged("int", 0, 1), Ranged("int", NoBound, 1), Ranged("cint", 0, 1),
     Ranged("cint", 1, NoBound), Sized("str", 1, NoBound, "-"), Sized("str", 0, 1, "-")}
TripValues ==
    {IntV(i) : i \in 0..MaxInt} \cup {StrV(i) : i \in 0..MaxInt}
    \cup {BoolV(TRUE), BoolV(FALSE), None}
TripItems == {IntV(0), IntV(MaxInt), StrV(1), BoolV(TRUE)}
TripLists == {<<>>} \cup {<<a>> : a \in TripItems} \cup {<<a, b>> : a, b \in TripItems}
TripDicts == [DKeys -> TripItems \cup {Absent}]
ListFields == {Sized("list", lo, hi, "-") : lo \in {0, 1}, hi \in {NoBound, 1}}

\* f.convert(f.serialize(v)) (test_fields.py)
RoundTripCall(fd, v) ==
    /\ Applied
    /\ last' = [op |-> "round_trip", field |-> fd, value |-> v,
                out |-> RoundTrip(fd, v).out, ret |-> RoundTrip(fd, v).ret]

\* f = ListField(type=efd, min_len=.., max_len=..); f.convert(f.serialize(l))
ListRoundTripCall(fd, efd, items) ==
    /\ Applied
    /\ last' = [op |-> "list_round_trip", field |-> fd, elem |-> efd, items |-> items,
                out |-> ListTripOut(fd, efd, items),
                ret |-> IF ListTripOut(fd, efd, items) = "ok" THEN ItemsTrip(efd, items) ELSE <<>>]

\* f = DictField(type=efd); f.convert(f.serialize(d))
DictRoundTripCall(efd, entries) ==
    /\ Applied
    /\ last' = [op |-> "dict_round_trip", elem |-> efd, entries |-> entries,
                out |-> ItemsOut(efd, entries),
                ret |-> IF ItemsOut(efd, entries) = "ok" THEN ItemsTrip(efd, entries)
                        ELSE [k \in DKeys |-> Absent]]

\* the integers passed and the bounds of the fields
IntInputs == (0 - MaxInt - 1)..(MaxInt + 1)
IntBounds == {NoBound} \cup ((0 - MaxInt)..MaxInt)

\* f = IntegerField(min=lo, max=hi) or ConstrainedIntegerField(min=lo,
\* max=hi); f.convert(i) or f.serialize(i) (test_fields.py 190-304)
IntegerCall(op, kind, lo, hi, i) ==
    /\ Applied
    /\ last' = [op |-> op, kind |-> kind, min |-> lo, max |-> hi, value |-> i,
                out |-> IntegerApply(Ranged(kind, lo, hi), IntV(i)).out,
                ret |-> IntegerApply(Ranged(kind, lo, hi), IntV(i)).ret]

\* the keyword parameters of DictField.__init__, which @dataclass generates
\* from the attributes Field, ContainerField and DictField declare
\* (fields.py 68-71, 387, 418-419)
DictFieldParams == {"name", "default", "required", "lazy", "type"}

\* DictField with keyword arguments: a keyword that is not a parameter is a TypeError
DictFieldInit(kwargs) ==
    IF kwargs \subseteq DictFieldParams THEN "ok" ELSE "TypeError"

\* the keys and values of a dict of the file or of a default; 0: no such key
MergeKeys == {"default", "overwrite", "new"}
MergeMaps == [MergeKeys -> 0..2]

\* ConfigModel.get (object.py 332-341): the raw value of a key is the file's
\* value when the key is in the file, a copy of the field's default otherwise
RawOrDefault(present, filed, dflt) == IF present THEN filed ELSE dflt

\* class Jkl: dict_default = DictField(type=IntegerField(), default=dflt
\* [, merge_defaults=True]); the file holds 'dict_default': filed or not the
\* key; d = jkl.dict_default; {k: d[k] for k in d} (test_models.py 71-76,
\* 638-644). ConfigDict iterates over the keys of its raw dict (object.py
\* 669-673) and IntegerField converts an int to itself.
DictDefaultCall(merge, present, filed, dflt) ==
    /\ Applied
    /\ \E o \in {DictFieldInit({"type", "default"}
                                \cup IF merge THEN {"merge_defaults"} ELSE {})} :
          last' = [op |-> "dict_default", merge |-> merge, present |-> present,
                   file |-> filed, dflt |-> dflt, out |-> o,
                   items |-> IF o = "ok" THEN RawOrDefault(present, filed, dflt)
                             ELSE [k \in MergeKeys |-> 0]]

\* the conversions of the fields, each on its own
NextFields ==
    \/ \E merge \in BOOLEAN, present \in BOOLEAN, filed \in MergeMaps, dflt \in MergeMaps :
          DictDefaultCall(merge, present, filed, dflt)
    \/ \E kind \in RefKinds, must_exist \in BOOLEAN, c \in Clients, rv \in RefValues :
          RefConvertCall(kind, must_exist, c, rv)
    \/ \E op \in {"int_convert", "int_serialize"}, kind \in IntKinds,
          lo \in IntBounds, hi \in IntBounds, i \in IntInputs :
          IntegerCall(op, kind, lo, hi, i)
    \/ \E fd \in TripFields, v \in TripValues : RoundTripCall(fd, v)
    \/ \E fd \in ListFields, efd \in TripFields, items \in TripLists :
          ListRoundTripCall(fd, efd, items)
    \/ \E efd \in TripFields, entries \in TripDicts : DictRoundTripCall(efd, entries)

SpecFields == InitModels /\ [][NextFields]_vars

(***************************************************************************)
(* Properties of KaztronConfig                                             *)
(***************************************************************************)

\* C2: write() on a config that is not read-only calls the file strategy's
\* write exactly when is_dirty was true, a write() that returns leaves
\* is_dirty false, and a write() right after a write() that returned does
\* no file I/O.
C2_WriteIffDirty ==
    (opened /\ ~clast.ro /\ clast.op = "write") =>
        /\ (clast.writes = 1) <=> clast.dirtyBefore
        /\ clast.out = "ok" => ~is_dirty
        /\ (clast.prevOp = "write" /\ clast.prevOut = "ok") => clast.writes = 0

\* a write() that did file I/O was followed by a write() that did none
C2_Witness ==
    /\ opened /\ ~clast.ro
    /\ clast.op = "write" /\ clast.out = "ok" /\ clast.writes = 0
    /\ clast.prevOp = "write" /\ clast.prevOut = "ok" /\ clast.prevWrites = 1

\* C3 as stated: a set is_dirty is cleared only by a call whose file-strategy
\* write returned without raising (no other call, read() included, clears it).
C3_ClearedOnlyByWrite ==
    (opened /\ clast.dirtyBefore /\ ~is_dirty) =>
        (clast.writes >= 1 /\ clast.out = "ok")

\* C3 amended: a set is_dirty is cleared only by a call whose file-strategy
\* write returned without raising, or by a read() that loaded the file (the
\* in-memory tree is then the file's content); a write() that raises leaves
\* is_dirty and the in-memory tree as they were.
C3_ClearedByWriteOrRead ==
    [][ /\ (opened /\ is_dirty /\ ~is_dirty') =>
               \/ clast'.writes >= 1 /\ clast'.out = "ok"
               \/ /\ clast'.op = "read" /\ clast'.writes = 0
                  /\ clast'.out \in {"ok", "ConfigNameError"}
                  /\ data' = file.content /\ file' = file
        /\ ((\E wf \in BOOLEAN : Write(wf)) /\ clast'.out # "ok") =>
               (is_dirty' = is_dirty /\ data' = data /\ file' = file)
      ]_vars

\* a write() on a dirty config raised and the flag is still set
C3_Witness ==
    /\ opened /\ clast.op = "write" /\ clast.out = "OSError"
    /\ clast.dirtyBefore /\ is_dirty

\* C5: on a read-only KaztronConfig no call (the constructor on a missing
\* file, write, set, set_defaults, read) invokes the file strategy's write,
\* and write() and set() raise ReadOnlyError.
C5_ReadOnlyNeverWrites ==
    clast.ro =>
        /\ clast.writes = 0
        /\ clast.op \in {"write", "set"} => clast.out = "ReadOnlyError"

\* write() was called on a read-only config after set_defaults
C5_Witness ==
    /\ opened /\ read_only /\ clast.ro
    /\ clast.op = "write" /\ clast.out = "ReadOnlyError"
    /\ clast.prevOp = "set_defaults"

(***************************************************************************)
(* Properties of the node tree                                             *)
(***************************************************************************)
Mutators == {"set", "insert", "del"}

\* the raw slot behind a key or an index of a node
RawSlot(n, slot) ==
    IF nodes[n].kind = "list" THEN raws[nodes[n].data].l[IdxOf(slot)]
    ELSE raws[nodes[n].data].d[slot]

\* C1: after a successful mutation of a node attached to a Root (set,
\* __setitem__, insert, __delitem__), the backing KaztronConfig has
\* is_dirty = true.
C1_MutationSetsDirty ==
    (last.op \in Mutators /\ last.out = "ok" /\ last.attached) => is_dirty

\* C4: under a read-only Root every mutation attempt on the Root or on a
\* descendant raises ReadOnlyError and leaves the raw tree unchanged. Stated
\* for the attempts whose value the element field accepts (an integer) and
\* for deletions.
C4_ReadOnlyRejectsMutation ==
    (/\ last.op \in Mutators /\ last.ro /\ last.attached
     /\ last.value.t \in {"int", "none"})
        => (last.out = "ReadOnlyError" /\ ~last.rawChanged)

\* C6: two reads of the same key/index of a node with no write to that
\* key/index and no clear_cache/cfg_set_data in between return the identical
\* object.
C6_RepeatedReadSameObject ==
    (last.op = "get" /\ last.out = "ok" /\ last.prev.seen # Absent)
        => last.ret = last.prev.seen

\* the root's list was read twice and the second read returned the node the
\* first one created
C6_Witness ==
    /\ last.op = "get" /\ last.out = "ok" /\ last.node = 1 /\ last.key = "lst"
    /\ last.prev.seen.t = "node"
    /\ last.ret = last.prev.seen

\* C7: after a successful write to key/index k the node holds no valid cache
\* entry for k, and the next read of k returns a value newly converted from
\* the raw slot: a node created by that read (so neither the cached instance
\* from before the write nor the written object), or the scalar in the slot.
C7_WriteInvalidatesCache ==
    /\ (last.op = "set" /\ last.out = "ok")
          => CacheEntry(Heap, last.node, last.key) = Absent
    /\ (last.op = "get" /\ last.out = "ok" /\ last.prev.val # Absent)
          => /\ last.ret.t = "node" => last.ret.v > last.nodesBefore
             /\ last.ret.t # "node" => last.ret = RawSlot(last.node, last.key)
             /\ last.prev.old.t = "node" => last.ret # last.prev.old
             /\ last.prev.val.t = "node" => last.ret # last.prev.val

\* a key whose cache held a node was written, and the read after the write
\* returned another node
C7_Witness ==
    /\ last.op = "get" /\ last.out = "ok"
    /\ last.prev.val # Absent
    /\ last.prev.old.t = "node"
    /\ last.ret.t = "node"

\* C8: on a Model whose strict_keys flag is set, get(k) and set(k, v) of a
\* key k that the schema does not declare raise ConfigKeyError, whether or
\* not k is in the raw data or was read before, and leave the raw data alone.
C8_StrictRejectsUndeclared ==
    (/\ last.op \in {"get", "set"} /\ IsModel(last.node)
     /\ last.strict
     /\ last.key \notin cfg_field_keys(nodes[last.node].cls)
     /\ ~IsReservedName(last.key)
     /\ last.op = "set" => ~last.ro)
        => (last.out = "ConfigKeyError" /\ ~last.rawChanged)

\* C9: get(k) and set(k, v) with a key of a reserved prefix are rejected and
\* never write raw data under that key. The claim names the error,
\* ConfigNameError; stated here for any error.
C9_ReservedNameRejected ==
    (/\ last.op \in {"get", "set"} /\ IsModel(last.node)
     /\ IsReservedName(last.key)
     /\ last.op = "set" => ~last.ro)
        => (last.out # "ok" /\ ~last.rawChanged)

\* C10: after an insert/append/__delitem__ that returned, the length of the
\* ConfigList is within [min_len, max_len] of its ListField: a mutation that
\* would leave the window is refused.
C10_LengthWithinWindow ==
    (last.op \in {"insert", "del"} /\ last.out = "ok")
        => validate_length(FieldDef(nodes[last.node].field.id),
                           Len(raws[nodes[last.node].data].l))

\* the declared field behind the key of the latest call on a model
LastField == FieldDef(cfg_get_field(nodes[last.node].cls, last.key).id)

\* a get of a declared key of a model that has no raw value under the key
LastGetMissing ==
    /\ last.op = "get" /\ IsModel(last.node)
    /\ last.key \in cfg_field_keys(nodes[last.node].cls)
    /\ RawSlot(last.node, last.key) = Absent

C12_GetLeavesRawAndDirty ==
    [][(calls' # calls /\ last'.op = "get")
          => (raws' = raws /\ is_dirty' = is_dirty /\ data' = data)]_vars

\* a get returned the default of a field, and the raw data has no value
\* under the key afterwards
C12_Witness ==
    /\ LastGetMissing /\ last.out = "ok"
    /\ ~LastField.required /\ LastField.default # None
    /\ last.ret = LastField.default
    /\ ~last.rawChanged

\* C13: whenever raw data is bound to a Model (cfg_set_data), every declared
\* Field of that Model with lazy=False is converted before the bind returns.
\* Stated for the bind that set(k, model) makes on the model it is passed:
\* once the set has returned, the model's cache holds every non-lazy field.
C13_NonLazyConvertedAtBind ==
    (/\ last.op = "set" /\ last.out = "ok"
     /\ last.value.t = "node" /\ IsModel(last.value.v))
        => \A k \in cfg_field_keys(nodes[last.value.v].cls) :
              ~FieldDef(ConfigFields(nodes[last.value.v].cls)[k]).lazy
                  => nodes[last.value.v].conv[k] # Absent

\* the classes of the root that have 'dct' registered to Sub
RegisteredClasses == {"RootReg", "RootRegEager"}

\* C14: after root.cfg_register_model(key, M, ...) has returned, root.get(key)
\* returns an instance of M bound to raw[key], also when the key was
\* registered or read under a different model before.
C14_RegisteredKeyReadsModel ==
    (/\ last.op = "get" /\ last.node = 1 /\ last.key = "dct"
     /\ nodes[1].cls \in RegisteredClasses
     /\ IsRawDict(Heap, RawSlot(1, "dct")))
        => /\ last.out = "ok"
           /\ last.ret.t = "node"
           /\ nodes[last.ret.v].kind = "model"
           /\ nodes[last.ret.v].cls = "Sub"
           /\ RawV(nodes[last.ret.v].data) = RawSlot(1, "dct")

\* the exceptions that Field.convert and Field.serialize raise
\* (fields.py 75-95)
FieldErrors == {"TypeError", "ValueError"}

\* C15: when a Field's convert raises during ConfigModel.get, or its
\* serialize raises during ConfigModel.set, the caller receives a
\* ConfigConverterError: no exception of the Field itself leaves get or set.
C15_ConverterErrorsWrapped ==
    (last.op \in {"get", "set"} /\ IsModel(last.node))
        => last.out \notin FieldErrors

\* C16: every successful mutation of a Model, List or Dict node at any depth
\* of a root-attached tree results in at least one call of the Root
\* KaztronConfig's notify(), a successful ConfigModel.set in exactly one; a
\* mutation that raises results in none.
C16_MutationNotifies ==
    last.op \in Mutators
        => /\ (last.out = "ok" /\ last.attached) => last.notifies >= 1
           /\ (last.out = "ok" /\ last.attached /\ IsModel(last.node)) => last.notifies = 1
           /\ last.out # "ok" => last.notifies = 0

\* a Sub object attached under the root was set a key, and notify() was
\* called once
C16_Witness ==
    /\ last.op = "set" /\ last.out = "ok" /\ last.attached
    /\ IsSub(last.node) /\ nodes[last.node].parent = 1
    /\ last.notifies = 1

\* C17: in every reachable state, every Model/List/Dict node that has a
\* parent has its root equal to its parent's root, and a Root has itself as
\* root and no parent; this includes nodes built unattached, navigated into,
\* and attached to a tree later by set.
\* Stated for the nodes that existed before the latest call: the objects a
\* caller built or was returned.
C17_RootIsParentsRoot ==
    \A n \in 1..last.nodesBefore :
        /\ nodes[n].parent # 0 => nodes[n].root = nodes[nodes[n].parent].root
        /\ nodes[n].kind = "root" => (nodes[n].root = n /\ nodes[n].parent = 0)

\* the step a get takes: the key of a model, the index of a list
LastStep ==
    IF IsList(last.node) THEN PathIndex(IdxOf(last.key) - 1) ELSE PathName(last.key)

\* C18: a node returned by navigating from the Root has cfg_path equal to
\* the sequence of field names and list indices used to reach it (the
\* Root's path is empty); for a list element at index i the path ends in i,
\* also when it is read again after inserts or deletes shifted its position.
C18_PathFollowsNavigation ==
    /\ cfg_path(Heap, 1, MaxNodes) = <<>>
    /\ cfg_path(Heap, 2, MaxNodes) = <<PathName("ll")>>
    /\ (last.op = "get" /\ last.out = "ok" /\ last.ret.t = "node")
          => cfg_path(Heap, last.ret.v, MaxNodes)
                = Append(cfg_path(Heap, last.node, MaxNodes), LastStep)

\* an element list that was read before and has moved since was read again
\* at its new index
C18_Witness ==
    /\ last.op = "get" /\ last.out = "ok" /\ IsList(last.node)
    /\ last.ret.t = "node"
    /\ last.ret.v <= last.nodesBefore
    /\ last.prev.seen = Absent
    /\ cfg_path(Heap, last.ret.v, MaxNodes) = <<PathName("ll"), LastStep>>

\* the node n and its ancestors, nearest first
RECURSIVE AncestorChain(_, _)
AncestorChain(n, fuel) ==
    IF nodes[n].parent = 0 \/ fuel = 0 THEN <<n>>
    ELSE <<n>> \o AncestorChain(nodes[n].parent, fuel - 1)

\* the values node m holds for the name a in its tables for F and for the
\* superclasses of F
AttrSet(m, F, a) ==
    {nodes[m].attrs[Mro(F)[i]][a] : i \in 1..Len(Mro(F))} \ {0}

\* C19: cfg_get_runtime_attributes(F) at a node merges the tables of the
\* node and of all its ancestors up to the Root: a name no node of the chain
\* sets is not in the result, and a name set at several nodes has a value
\* set at the nearest of them.
C19_NearestNodeWins ==
    last.op = "get_attrs" =>
        LET ch == AncestorChain(last.node, MaxNodes) IN
        \A a \in AttrNames :
            LET have == {i \in 1..Len(ch) : AttrSet(ch[i], last.key, a) # {}} IN
            IF have = {} THEN last.ret.v[a] = 0
            ELSE last.ret.v[a] \in
                    AttrSet(ch[CHOOSE i \in have : \A j \in have : i <= j], last.key, a)

\* the element asks; the root sets a and b, the list between them sets
\* another a: the answer has the list's a and the root's b
C19_Witness ==
    /\ last.op = "get_attrs"
    /\ last.node = 3
    /\ AncestorChain(3, MaxNodes) = <<3, 2, 1>>
    /\ AttrSet(1, last.key, "a") = {2}
    /\ AttrSet(1, last.key, "b") = {1}
    /\ AttrSet(2, last.key, "a") = {1}
    /\ AttrSet(2, last.key, "b") = {}
    /\ last.ret.v = [a |-> 1, b |-> 1]

\* C20: when one node sets an attribute name both for a Field subtype F and
\* for a superclass of F, cfg_get_runtime_attributes(F) at that node returns
\* the value set for F.
C20_SpecificTypeWins ==
    (last.op = "get_attrs" /\ last.key = "IntegerField") =>
        \A a \in AttrNames :
            (/\ nodes[last.node].attrs["IntegerField"][a] # 0
             /\ nodes[last.node].attrs["PrimitiveField"][a] # 0)
                => last.ret.v[a] = nodes[last.node].attrs["IntegerField"][a]

\* the Field object a node converts the slot with
SlotField(n, slot) ==
    IF IsModel(n) THEN ConfigFields(nodes[n].cls)[slot] ELSE FieldDef(nodes[n].field.id).elem

\* the testattr of the table for PotatoField resolved at node n
Resolved(n) == cfg_get_runtime_attributes(Heap, n, "PotatoField", MaxNodes)["a"]

\* the Potatoes an eager container holds once it is bound
Contents(v) ==
    IF v.t # "node" THEN {}
    ELSE {nodes[v.v].lconv[i] : i \in 1..Len(nodes[v.v].lconv)}
         \cup {nodes[v.v].conv[k] : k \in {"x"}}

\* C21: every convert of a field that needs runtime attributes comes after
\* a refresh of the field's attributes from the table resolved at the
\* converting node: a read that converts a slot through a PotatoField while
\* the table has a testattr returns the Potato of the raw value and that
\* testattr, and a read that binds a container that is not lazy succeeds
\* and leaves only Potatoes with that testattr in the container.
C21_ConvertAfterRefresh ==
    [][(/\ calls' # calls
        /\ last'.op = "get"
        /\ CacheEntry(Heap, last'.node, last'.key) = Absent
        /\ Resolved(last'.node) # 0)
       => /\ (/\ SlotField(last'.node, last'.key) \in PotatoFields
              /\ RawSlot(last'.node, last'.key) # Absent)
                => (/\ last'.out = "ok"
                    /\ last'.ret = Potato(RawSlot(last'.node, last'.key).v,
                                           Resolved(last'.node)))
          /\ (last'.node = 1 /\ last'.key \in {"el", "ed"})
                => (/\ last'.out = "ok"
                    /\ \A e \in Contents(last.ret)' \ {Absent} :
                           e.t = "potato" /\ e.a = Resolved(last'.node))]_vars

\* the lazy half of C21 alone
C21_LazyConvertAfterRefresh ==
    [][(/\ calls' # calls
        /\ last'.op = "get"
        /\ CacheEntry(Heap, last'.node, last'.key) = Absent
        /\ Resolved(last'.node) # 0
        /\ SlotField(last'.node, last'.key) \in PotatoFields
        /\ RawSlot(last'.node, last'.key) # Absent)
       => (/\ last'.out = "ok"
           /\ last'.ret = Potato(RawSlot(last'.node, last'.key).v, Resolved(last'.node)))]_vars

\* the resolver a Reference field looks the model up with is available:
\* the client is ready (channels), the client has its guild (roles, members)
Available(kind, c) == IF kind = "GuildChannelField" THEN c.ready ELSE c.guild

\* the model for the raw id or name can be found
Found(kind, c, rv) == rv.v \in c.has /\ (kind = "GuildChannelField" \/ c.guild)

\* DiscordDummy(id=raw) for an integer, DiscordDummy(name=raw) for a string
DummyOf(rv) == IF rv.t = "int" THEN DummyId(rv.v) ELSE DummyName(rv.v)

C23_NoClientGivesPlaceholder ==
    (/\ last.op = "ref_convert"
     /\ ~last.must_exist
     /\ ~last.client.inj)
        => last.out = "ok" /\ last.ret = DummyOf(last.value)

\* v clamped to the bounds that are given
Clamped(lo, hi, v) ==
    IF hi # NoBound /\ v > hi THEN hi
    ELSE IF lo # NoBound /\ v < lo THEN lo
    ELSE v

\* C24: for all integers v and optional bounds min <= max, convert and
\* serialize of IntegerField return v when v is inside the window and raise
\* ValueError otherwise; those of ConstrainedIntegerField never raise and
\* return v clamped to the nearest bound that is given.
C24_RangeCheckedOrClamped ==
    (/\ last.op \in {"int_convert", "int_serialize"}
     /\ (last.min = NoBound \/ last.max = NoBound \/ last.min <= last.max))
        => IF last.kind = "int"
           THEN IF Clamped(last.min, last.max, last.value) = last.value
                THEN last.out = "ok" /\ last.ret = IntV(last.value)
                ELSE last.out = "ValueError"
           ELSE /\ last.out = "ok"
                /\ last.ret = IntV(Clamped(last.min, last.max, last.value))

\* ConstrainedIntegerField(min=0).serialize(-1) is 0
C24_Witness ==
    /\ last.op = "int_serialize"
    /\ last.kind = "cint"
    /\ last.min = 0 /\ last.max = NoBound
    /\ last.value = -1
    /\ last.ret = IntV(0)

\* the values within the constraints of a scalar field
InDomain(fd, v) ==
    CASE fd.ftype = "prim" -> v.t \in {"int", "str", "bool"}
      [] fd.ftype = "str" -> v.t = "str" /\ Clamped(fd.min_len, fd.max_len, v.v) = v.v
      [] fd.ftype = "bool" -> v.t = "bool"
      [] OTHER -> v.t = "int" /\ Clamped(fd.min, fd.max, v.v) = v.v

\* C25: for Primitive, String, Integer, ConstrainedInteger, Boolean, List
\* and Dict fields and every value v within the field's constraints,
\* convert(serialize(v)) equals v.
C25_RoundTrip ==
    /\ (last.op = "round_trip" /\ InDomain(last.field, last.value))
          => last.out = "ok" /\ last.ret = last.value
    /\ (/\ last.op = "list_round_trip"
        /\ Clamped(last.field.min_len, last.field.max_len, Len(last.items)) = Len(last.items)
        /\ \A i \in 1..Len(last.items) : InDomain(last.elem, last.items[i]))
          => last.out = "ok" /\ last.ret = last.items
    /\ (/\ last.op = "dict_round_trip"
        /\ \A k \in DKeys : last.entries[k] # Absent => InDomain(last.elem, last.entries[k]))
          => last.out = "ok" /\ last.ret = last.entries

\* a list of two booleans through ListField(type=BooleanField())
C25_Witness ==
    /\ last.op = "list_round_trip"
    /\ last.elem.ftype = "bool"
    /\ last.items = <<BoolV(TRUE), BoolV(TRUE)>>
    /\ last.ret = last.items

\* the values a raw dict or list holds
RawEntries(r) ==
    {raws[r].d[k] : k \in Keys} \cup {raws[r].l[i] : i \in 1..Len(raws[r].l)}

\* the raw dicts and lists of the tree below raw object r
RECURSIVE RawTree(_, _)
RawTree(rs, fuel) ==
    IF fuel = 0 THEN rs
    ELSE RawTree(rs \cup {v.v : v \in {e \in UNION {RawEntries(r) : r \in rs} : e.t = "raw"}},
                 fuel - 1)

\* a converted object: a config node, a PotatoField value or another
\* Python object that no file format can store
IsObject(e) == e.t \in {"node", "obj", "potato"}

\* C26: after any sequence of ConfigModel.set and container writes, the raw
\* tree of the Root holds no converted object at any depth: setting a key to
\* a ConfigModel instance stores raw maps and lists only.
C26_RawTreeOnlyPrimitives ==
    \A r \in RawTree({nodes[1].data}, MaxRaws) :
        \A e \in RawEntries(r) : ~IsObject(e)

\* C27: constructing a KaztronConfig whose file does not exist: when not
\* read-only, read() calls the file strategy's write exactly once (the only
\* write of the constructor when no defaults are passed), and the object, if
\* constructed, has is_dirty false; when read-only, OSError propagates, write
\* is never called and no file is created.
C27_OpenMissingFile ==
    [][(~file.exists /\ clast'.op = "open" /\ ~opened) =>
          IF clast'.ro
          THEN /\ clast'.out = "OSError"
               /\ clast'.writes = 0
               /\ ~opened'
               /\ ~file'.exists
          ELSE /\ clast'.readWrites = 1
               /\ ~clast'.withDefaults => clast'.writes = 1
               /\ opened' => ~is_dirty' /\ file'.exists
               /\ clast'.out \in {"ok", "OSError"}]_vars

\* a missing file was created by the constructor's single write
C27_Witness ==
    /\ clast.op = "open"
    /\ ~clast.ro
    /\ clast.readWrites = 1
    /\ ~clast.withDefaults
    /\ clast.writes = 1
    /\ opened
    /\ ~is_dirty
    /\ file.exists

\* C28: for a dict field declared with a default map and merge_defaults,
\* whose key is in the file, the Dict read through the Model holds the union
\* of the default's keys and the file's keys, and the file's value for a key
\* of both.
C28_MergedDefaults ==
    (last.op = "dict_default" /\ last.merge /\ last.present) =>
        /\ last.out = "ok"
        /\ \A k \in MergeKeys :
              last.items[k] = IF last.file[k] # 0 THEN last.file[k] ELSE last.dflt[k]

\* without merge_defaults the Dict is the file's dict when the key is in the
\* file and the default otherwise
C28_FileOrDefault ==
    (last.op = "dict_default" /\ ~last.merge) =>
        /\ last.out = "ok"
        /\ last.items = IF last.present THEN last.file ELSE last.dflt

\* C29: cfg_write() on a node attached to a Root, the Root itself or a
\* descendant Model, List or Dict, calls the write() of the Root's
\* KaztronConfig once; on an unattached node it does nothing and does not
\* raise.
C29_WriteReachesConfig ==
    last.op = "cfg_write" =>
        IF last.attached THEN last.writes = 1
        ELSE last.writes = 0 /\ last.out = "ok"

\* cfg_write() on the Root itself calls the write() of its KaztronConfig
\* once; on an unattached node it does nothing and does not raise
C29_RootOrUnattached ==
    (last.op = "cfg_write" /\ (last.kind = "root" \/ ~last.attached)) =>
        IF last.attached THEN last.writes = 1
        ELSE last.writes = 0 /\ last.out = "ok"

\* the raw value now in the slot the latest call named
SlotNow ==
    IF IsList(last.node) THEN raws[nodes[last.node].data].l[IdxOf(last.key)]
    ELSE raws[nodes[last.node].data].d[last.key]

\* C30: of two nodes bound to the same raw list or dict, a read through one
\* returns what the latest write to the slot, through either, stored: no
\* node returns a cached value older than that write (an IntegerField
\* element converts to itself).
C30_ReadSeesLatestWrite ==
    (last.op = "get" /\ last.out = "ok" /\ last.node # 1) => last.ret = SlotNow

\* reads of the root's containers, one of them absent from the file and
\* declared with default=[], and writes through the containers returned
\* (core.py 358-363: state.public_links[i] = new_link, .append(new_link))
NextDefault ==
    \/ \E k \in {"lst", "dl", "dct"} : ModelGetCall(1, k)
    \/ \E n \in NodeIds, i \in 1..MaxLen : \E v \in Values(n, "int") :
          IsList(n) /\ i <= Len(raws[nodes[n].data].l) + 1 /\ ListInsertCall(n, i, v)
    \/ \E n \in NodeIds, i \in 1..2 : \E v \in Values(n, "int") : ListSetCall(n, i, v)
    \/ \E n \in NodeIds, k \in DKeys : \E v \in Values(n, "int") : DictSetCall(n, k, v)

SpecDefault == InitModels /\ [][NextDefault]_vars

\* C31: after a successful write through a List or Dict node that get
\* returned, the raw container the node wrote to is part of the Root's raw
\* tree, the data the next write() saves, also when the key was absent from
\* the file and the container was built from the Field's default.
C31_MutationInRawTree ==
    (/\ last.op \in {"set", "insert"}
     /\ last.out = "ok"
     /\ ~IsModel(last.node)
     /\ nodes[last.node].parent = 1)
        => nodes[last.node].data \in RawTree({nodes[1].data}, MaxRaws)

\* a write through the container of a key the file has does reach the
\* Root's raw tree
C31_PresentKeyInRawTree ==
    (/\ last.op \in {"set", "insert"}
     /\ last.out = "ok"
     /\ ~IsModel(last.node)
     /\ nodes[last.node].parent = 1
     /\ nodes[last.node].field.name # "dl")
        => nodes[last.node].data \in RawTree({nodes[1].data}, MaxRaws)

\* reads and writes of two integer fields of the root: 'n', declared under
\* its own name, and 'al', declared with name='u' (test_models.py 288-298)
NextNamed ==
    \/ \E k \in {"n", "al"} : ModelGetCall(1, k)
    \/ \E k \in {"n", "al"} : \E v \in Values(1, "int") : ModelSetCall(1, k, v)

SpecNamed == InitModels /\ [][NextNamed]_vars

\* convert(serialize(v)) of a scalar field
ConvSer(fd, v) == ScalarConvert(fd, ScalarSerialize(fd, v).ret)

\* C32: the read of a declared key that follows a successful set(k, v)
\* returns convert(serialize(v)), also for a field whose name differs from
\* the key it is declared under: set stores under the raw key get reads.
C32_SetThenGet ==
    (last.op = "get" /\ last.node = 1 /\ last.prev.val # Absent)
        => /\ last.out = "ok"
           /\ last.ret = ConvSer(FieldDef(ConfigFields("Root")[last.key]), last.prev.val).ret

\* the same for a field declared under its own name
C32_SetThenGetOwnName ==
    (last.op = "get" /\ last.node = 1 /\ last.prev.val # Absent /\ last.key = "n")
        => /\ last.out = "ok"
           /\ last.ret = ConvSer(FieldDef("Root.n"), last.prev.val).ret

\* a second file: {'dct': {'x': 1}}
SecondRaws ==
    << RawDict([k \in Keys |-> IF k = "dct" THEN RawV(5) ELSE Absent]),
       RawDict([k \in Keys |-> IF k = "x" THEN IntV(1) ELSE Absent]) >>

\* two roots of one class, each on the data of its own file
\* (ConfigRoot.__init__, object.py 446-451; cfg_set_data)
InitRoots ==
    TreeInit([nodes |-> <<RootNode, MkNode("root", "Root", FRef("root", 2, "root"), 0, 2, 4)>>,
              raws |-> InitialRaws(<<IntV(1)>>) \o SecondRaws,
              ns |-> {}, fa |-> NoFieldAttrs],
             <<NoHist, NoHist>>)

\* cfg_register_model('dct', Sub, lazy=lazy) on root n
RegisterModelOn(n, lazy) ==
    /\ opened
    /\ \E r \in {cfg_register_model(Heap, n, lazy)} :
           /\ Fits(r.h)
           /\ SetHeap(r.h)
           /\ hist' = IF lazy THEN hist ELSE HistRead(hist, Heap, n, "dct", r)
           /\ last' = TLast("register", n, "dct", None, r, None, 0)
    /\ UNCHANGED cvars

\* a cog registers its section on the first root; both roots are read
\* (kazcog.py 70-75)
NextRoots ==
    \/ \E lazy \in BOOLEAN : RegisterModelOn(1, lazy)
    \/ \E n \in {1, 2}, k \in {"dct", "n"} : ModelGetCall(n, k)
    \/ \E n \in NodeIds, k \in DKeys :
          FieldDef(nodes[n].field.id).ftype = "dict" /\ DictGetCall(n, k)
    \/ \E n \in {1, 2} : ClearCacheCall(n)

SpecRoots == InitRoots /\ [][NextRoots]_vars

\* C33: cfg_register_model('dct', Sub) on the first root leaves the second
\* root as it was: its field for 'dct' is still the DictField of the class
\* and its get('dct') still returns a Dict.
C33_RegisterOnThatRootOnly ==
    /\ cfg_get_field(nodes[2].cls, "dct") = SchemaField("Root.dct")
    /\ (last.op = "get" /\ last.node = 2 /\ last.key = "dct" /\ last.out = "ok")
          => nodes[last.ret.v].kind = "dict"

\* the registration does change the root it is called on
C33_RegisteredOnThatRoot ==
    (last.op = "register" /\ last.out = "ok")
        => FieldDef(cfg_get_field(nodes[last.node].cls, "dct").id).ftype = "model"

\* C34: a ConfigModel.set(k, v) that raises leaves the model as it was: the
\* same raw map, the same conversion cache, the same dirty flag, and no
\* update notification.
C34_FailedSetChangesNothing ==
    [][(/\ last'.op = "set" /\ last'.out # "ok"
        /\ calls' # calls
        /\ IsModel(last'.node))
          => /\ raws'[nodes[last'.node].data] = raws[nodes[last'.node].data]
             /\ nodes'[last'.node].conv = nodes[last'.node].conv
             /\ is_dirty' = is_dirty
             /\ last'.notifies = 0]_vars

\* C35: a ConfigList.insert(i, v) or append(v) that raises because the
\* element field's serialize rejects v leaves the raw list as it was: the
\* same length and the same elements.
C35_FailedInsertKeepsList ==
    [][(/\ last'.op = "insert"
        /\ last'.out \in {"TypeError", "ValueError"}
        /\ calls' # calls)
          => raws'[nodes[last'.node].data].l = raws[nodes[last'.node].data].l]_vars

\* two roots of class B, each on the data of its own file: the first on
\* PotatoRaws, the second on {'x': 2}
InitPotatoRoots ==
    TreeInit([nodes |-> <<MkNode("root", "B", FRef("root", 1, "root"), 0, 1, 1),
                          MkNode("root", "B", FRef("root", 2, "root"), 0, 2, 6)>>,
              raws |-> Append(PotatoRaws, RawDict([k \in Keys |-> IF k = "x" THEN IntV(2) ELSE Absent])),
              ns |-> {}, fa |-> NoFieldAttrs],
             <<NoHist, NoHist>>)

\* testattr set for PotatoField on a node of either tree, and the Potatoes
\* of both trees read
NextPotatoRoots ==
    \/ \E n \in NodeIds, kw \in AttrKwargs : SetRuntimeAttrsCall(n, "PotatoField", kw)
    \/ \E n \in {1, 2}, k \in {"x", "lst"} : ModelGetCall(n, k)
    \/ \E n \in NodeIds, i \in 1..2 : ListGetCall(n, i)

SpecPotatoRoots == InitPotatoRoots /\ [][NextPotatoRoots]_vars

\* the testattr values in the PotatoField tables of node n and its ancestors
SetAbove(n) ==
    {nodes[m].attrs["PotatoField"]["a"] : m \in {x \in NodeIds : IsAncestor(x, n, MaxNodes)}}

\* C36: a conversion sees runtime attributes of its own node and ancestors
\* only: the testattr of a Potato newly converted at a node is one that was
\* set at that node or above it, never one set in a sibling branch or on
\* another Root that uses the same schema Field.
C36_AttrsStayInSubtree ==
    [][(/\ calls' # calls
        /\ last'.op = "get" /\ last'.out = "ok"
        /\ CacheEntry(Heap, last'.node, last'.key) = Absent
        /\ last'.ret.t = "potato")
          => last'.ret.a \in SetAbove(last'.node)]_vars

\* the Reference fields of a cog's config model, as core_config.py 56-60
\* declares its channels and roles: ch = GuildChannelField(), with
\* must_exist left True, and role = RoleField(must_exist=False); the file
\* has {'ch': 1, 'role': '0'}
RefFields ==
    [ch |-> [kind |-> "GuildChannelField", must_exist |-> TRUE],
     role |-> [kind |-> "RoleField", must_exist |-> FALSE]]

RefRaws ==
    << RawDict([k \in Keys |-> CASE k = "ch" -> IntV(1)
                                 [] k = "role" -> StrV(0)
                                 [] OTHER -> Absent]) >>

\* ConfigModel.get from the conversion on (object.py 346-353), r the result
\* of field.convert(raw_value)
RefRead(h, n, key, r) ==
    IF r.out # "ok" THEN [h |-> h, out |-> "ConfigConverterError", ret |-> None]
    ELSE [h |-> [h EXCEPT !.nodes[n].conv[key] = r.ret], out |-> "ok", ret |-> r.ret]

\* ConfigModel.get of a Reference field f whose client is c (object.py
\* 322-353): the cached object if there is one, else the raw value converted
RefGet(h, n, key, f, c) ==
    IF h.nodes[n].conv[key] # Absent
    THEN [h |-> h, out |-> "ok", ret |-> h.nodes[n].conv[key]]
    ELSE RefRead(h, n, key, RefConvert(f.kind, f.must_exist, c, h.raws[h.nodes[n].data].d[key]))

\* the model before the client is ready: the client is injected
\* (client.py 312) and knows no guild, channel or role yet
InitRefs ==
    /\ TreeStart([nodes |-> <<RootNode>>, raws |-> RefRaws, ns |-> {}, fa |-> NoFieldAttrs],
                 <<NoHist>>)
    /\ client = [inj |-> TRUE, ready |-> FALSE, guild |-> FALSE, has |-> {}]

\* model.get(key) of a Reference field
RefGetCall(key) ==
    /\ opened
    /\ \E r \in {RefGet(Heap, 1, key, RefFields[key], client)} :
           /\ SetHeap(r.h)
           /\ last' = [op |-> "ref_get", node |-> 1, key |-> key,
                       value |-> raws[nodes[1].data].d[key],
                       out |-> r.out, ret |-> r.ret, client |-> client,
                       cached |-> nodes[1].conv[key] # Absent]
    /\ UNCHANGED <<hist, cvars>>

\* the states of the injected client that matter to the two fields: ready
\* or not, with its guild or not, knowing channel 1 or not, role '0' or not
RefClients == {c \in Clients : c.inj /\ c.has \subseteq {0, 1}}

\* the connection to Discord changes what the client knows: it becomes
\* ready or disconnects, its guild, a channel or a role appears or goes
ClientChange(c) ==
    /\ c # client
    /\ client' = c
    /\ UNCHANGED <<cvars, nodes, raws, nonStrict, fieldAttrs, hist, calls, last>>

\* KazCog._on_ready_validate_config (kazcog.py 277-284), run by the cog's
\* on_ready / on_resume listener (245-258) once the client is ready
OnReadyValidate == client.ready /\ ClearCacheCall(1)

NextRefs ==
    \/ \E key \in DOMAIN RefFields : RefGetCall(key)
    \/ \E c \in RefClients : ClientChange(c)
    \/ OnReadyValidate

SpecRefs == InitRefs /\ [][NextRefs]_vars

\* C37: when the resolver of a Reference field is available and the model
\* the raw value names exists, get(key) returns that model, not a
\* DiscordDummy that was cached while the resolver was not available.
C37_ResolvedOnceReady ==
    (/\ last.op = "ref_get"
     /\ Available(RefFields[last.key].kind, last.client)
     /\ Found(RefFields[last.key].kind, last.client, last.value))
        => last.out = "ok" /\ last.ret = Entity(last.value.v)

\* a get that converts, with nothing in the cache, does return the model
C37_ConvertResolves ==
    (/\ last.op = "ref_get"
     /\ ~last.cached
     /\ Available(RefFields[last.key].kind, last.client)
     /\ Found(RefFields[last.key].kind, last.client, last.value))
        => last.out = "ok" /\ last.ret = Entity(last.value.v)

\* ConfigModelField.convert(value) (fields.py 463-467): a new object of the
\* field's class with the field itself as its field, no parent and no root,
\* bound to the raw dict
ModelFieldConvert(h, fref, rv) ==
    cfg_set_data(AllocNode(h, MkNode("model", FieldDef(fref.id).cls, fref, 0, 0, 0)),
                 Len(h.nodes) + 1, rv)

\* the file {'md': {'x': {'x': 1, 'q': 1, 'm': 1}}}
MdRaws ==
    << RawDict([k \in Keys |-> IF k = "md" THEN RawV(2) ELSE Absent]),
       RawDict([k \in Keys |-> IF k = "x" THEN RawV(3) ELSE Absent]),
       RawDict([k \in Keys |-> IF k \in {"x", "q", "m"} THEN IntV(1) ELSE Absent]) >>

\* d = root.get('md'): the ConfigDict is created and attached (object.py
\* 71-76); cfg_set_data, the field not being lazy, fills _converted with
\* DictField.convert(data) (object.py 655-659), which converts every value
\* with self.type.convert(raw_item) (fields.py 426-427)
MdBound ==
    AllocNode([nodes |-> <<RootNode>>, raws |-> MdRaws, ns |-> {}, fa |-> NoFieldAttrs],
              MkNode("dict", "-", SchemaField("Root.md"), 1, 1, 2))

MdRead ==
    [ModelFieldConvert(MdBound, ElemOf("Root.md.type"), RawV(3)).h
        EXCEPT !.nodes[2].conv["x"] = NodeV(3), !.nodes[1].conv["md"] = NodeV(2)]

InitModelDict == TreeInit(MdRead, <<NoHist, NoHist, NoHist>>)

\* reads of the dict and of the models in it, and writes to the models
NextModelDict ==
    \/ ModelGetCall(1, "md")
    \/ \E n \in NodeIds, k \in DKeys : DictGetCall(n, k)
    \/ \E n \in NodeIds, k \in SubKeys : IsSub(n) /\ ModelGetCall(n, k)
    \/ \E n \in NodeIds, k \in {"x", "q"} : \E v \in Values(n, "int") :
          IsSub(n) /\ ModelSetCall(n, k, v)

SpecModelDict == InitModelDict /\ [][NextModelDict]_vars

\* the last step of the cfg_path of node n
PathEnd(n) == cfg_path(Heap, n, MaxNodes)[Len(cfg_path(Heap, n, MaxNodes))]

\* C38: the Model that dict_node[k] returns has a cfg_path that ends in k
\* and a declaring field named k, on the first read and on every read
\* served from the cache.
C38_DictModelNamedByKey ==
    (/\ last.op = "get" /\ last.out = "ok"
     /\ IsDict(last.node)
     /\ last.ret.t = "node")
        => /\ nodes[last.ret.v].field.name = last.key
           /\ PathEnd(last.ret.v) = PathName(last.key)

====
